---- MODULE Spec2Model ----
(***************************************************************************)
(* NarouCast: the resilient multi-provider task pipeline.                  *)
(*                                                                         *)
(*   Semaphore, BatchProcessor   src/src/shared/batch-processor.js         *)
(*   ProviderMetrics             src/unnamed/part_005                      *)
(*   withRetry                   src/src/shared/errors.js                  *)
(*   ChapterNavigator            src/unnamed/part_007 (268-584)            *)
(*   SyosetuParser               src/unnamed/part_001                      *)
(*   LRUCache, CacheManager      src/src/shared/cache-manager.js           *)
(*                                                                         *)
(* Every component has its own variables and its own specification; a      *)
(* specification pins the variables of the other components.               *)
(***************************************************************************)
EXTENDS Integers, Sequences, FiniteSets, TLC

VARIABLES
    semaphore,   \* the Semaphore object: capacity, running, queue, stats
    held,        \* ids of the acquire calls that hold a permit (callers' view)
    metrics,     \* one ProviderMetrics object
    now,         \* Date.now(), in milliseconds
    retry,       \* one call of withRetry: its arguments, locals and outcome
    batchProcessor, \* the BatchProcessor object: options and metrics
    run,         \* one call of processBatch: its arguments, locals and outcome
    tasks,       \* the items of the batch under way, each with its progress
    processorLog, \* per item: the processor's invocations and what it did
    passes,      \* one call of processWithRetry: its arguments, locals and outcome
    navigator,   \* the ChapterNavigator object: config, processed set, counter
    sequence,    \* one call of processChapterSequence: its locals and outcome
    lruCache,    \* one LRUCache object (a cache namespace)
    clock,       \* Date.now() as the cache reads it
    cacheCall    \* the last call on the cache: its arguments and its result

semVars == <<semaphore, held>>
cbVars == <<metrics, now>>
retryVars == <<retry>>
batchVars == <<batchProcessor, run, tasks, processorLog>>
passVars == <<passes>>
navVars == <<navigator, sequence>>
cacheVars == <<lruCache, clock, cacheCall>>

vars == <<semaphore, held, metrics, now, retry,
          batchProcessor, run, tasks, processorLog,
          passes, navigator, sequence, lruCache, clock, cacheCall>>

Max(a, b) == IF a >= b THEN a ELSE b
Min(a, b) == IF a <= b THEN a ELSE b

(***************************************************************************)
(* Bounds of the model.                                                    *)
(***************************************************************************)
MaxCapacity == 3
MaxAcquisitions == 5

(***************************************************************************)
(* Semaphore (batch-processor.js 7-92).                                    *)
(* The queue holds the ids of the waiting acquire calls, oldest first.     *)
(* Of the wait-time statistics only "some waiter has waited" is kept       *)
(* (hasWaitTime): the clock values themselves are not modelled.            *)
(***************************************************************************)
NewSemaphore(capacity) ==
    [capacity          |-> capacity,
     running           |-> 0,
     queue             |-> <<>>,
     totalAcquisitions |-> 0,
     totalReleases     |-> 0,
     maxQueueLength    |-> 0,
     hasWaitTime       |-> FALSE]

\* mutant: an off-by-one capacity test
AcquireImmediateOffByOne(s) == s.running <= s.capacity

\* acquire(): whether the call returns at once with a permit
AcquireImmediate(s) == s.running < s.capacity

\* mutant: a waiter that is put at the head of the queue
SemAcquireJumpsQueue(s, id) ==
    LET s1 == [s EXCEPT !.totalAcquisitions = @ + 1]
    IN  IF s1.running < s1.capacity
        THEN [s1 EXCEPT !.running = @ + 1]
        ELSE [s1 EXCEPT !.queue = <<id>> \o @,
                        !.maxQueueLength = Max(@, Len(s1.queue) + 1)]

\* acquire(): the semaphore after the call made by acquire call `id`
SemAcquire(s, id) ==
    LET s1 == [s EXCEPT !.totalAcquisitions = @ + 1]
    IN  IF AcquireImmediate(s1)
        THEN [s1 EXCEPT !.running = @ + 1]
        ELSE [s1 EXCEPT !.queue = Append(@, id),
                        !.maxQueueLength = Max(@, Len(s1.queue) + 1)]

\* acquire(): whether the call made by `id` returned with a permit (its
\* promise is resolved) or waits in the queue of the semaphore `s` it left
AcquireGranted(s, id) == \A k \in 1..Len(s.queue) : s.queue[k] # id

\* release(): the ids woken by the call (the head of the queue, if any)
ReleaseWoken(s) == IF Len(s.queue) > 0 THEN {Head(s.queue)} ELSE {}

\* mutant: the slot handed to the next waiter is not counted as running
SemReleaseLosesSlot(s) ==
    LET s1 == [s EXCEPT !.totalReleases = @ + 1, !.running = @ - 1]
    IN  IF Len(s1.queue) > 0
        THEN [s1 EXCEPT !.queue = Tail(@), !.hasWaitTime = TRUE]
        ELSE s1

\* mutant: a release that wakes no waiter
SemReleaseNoHandOff(s) ==
    [s EXCEPT !.totalReleases = @ + 1, !.running = @ - 1]

\* release(): the semaphore after the call
SemRelease(s) ==
    LET s1 == [s EXCEPT !.totalReleases = @ + 1, !.running = @ - 1]
    IN  IF Len(s1.queue) > 0
        THEN [s1 EXCEPT !.queue = Tail(@),
                        !.running = @ + 1,
                        !.hasWaitTime = TRUE]
        ELSE s1

\* resize(newCapacity): how many queued waiters the call wakes
ResizeWakeCount(s, newCapacity) ==
    Min(Max(0, newCapacity - s.capacity), Len(s.queue))

\* resize(newCapacity): the ids woken by the call
ResizeWoken(s, newCapacity) ==
    {s.queue[i] : i \in 1..ResizeWakeCount(s, newCapacity)}

\* mutant: a growing resize that takes waiters off the queue without counting
\* them as running
SemResizeUncounted(s, newCapacity) ==
    LET k == ResizeWakeCount(s, newCapacity)
    IN  [s EXCEPT !.capacity = newCapacity,
                  !.queue = SubSeq(@, k + 1, Len(@)),
                  !.hasWaitTime = @ \/ k > 0]

\* resize(newCapacity), newCapacity >= 1: the semaphore after the call
SemResize(s, newCapacity) ==
    LET k == ResizeWakeCount(s, newCapacity)
    IN  [s EXCEPT !.capacity = newCapacity,
                  !.queue = SubSeq(@, k + 1, Len(@)),
                  !.running = @ + k,
                  !.hasWaitTime = @ \/ k > 0]

(***************************************************************************)
(* Callers of a bare Semaphore: any sequence of acquire calls, release     *)
(* calls made by holders of a permit, and resize calls.                    *)
(***************************************************************************)
InitSemaphore ==
    /\ \E capacity \in 1..MaxCapacity : semaphore = NewSemaphore(capacity)
    /\ held = {}

Acquire ==
    /\ semaphore.totalAcquisitions < MaxAcquisitions
    /\ UNCHANGED <<cbVars, retryVars, batchVars, passVars, navVars, cacheVars>>
    /\ LET id == semaphore.totalAcquisitions + 1
       IN  /\ semaphore' = SemAcquire(semaphore, id)
           /\ held' = IF AcquireGranted(SemAcquire(semaphore, id), id)
                       THEN held \cup {id} ELSE held

Release ==
    \E id \in held :
        /\ UNCHANGED <<cbVars, retryVars, batchVars, passVars, navVars, cacheVars>>
        /\ semaphore' = SemRelease(semaphore)
        /\ held' = (held \ {id}) \cup ReleaseWoken(semaphore)

\* release() called by the holder `id`
ReleaseBy(id) == id \in held /\ Release /\ id \notin held'

Resize ==
    \E newCapacity \in 1..MaxCapacity :
        /\ UNCHANGED <<cbVars, retryVars, batchVars, passVars, navVars, cacheVars>>
        /\ semaphore' = SemResize(semaphore, newCapacity)
        /\ held' = held \cup ResizeWoken(semaphore, newCapacity)


(***************************************************************************)
(* ProviderMetrics (part_005 9-342): the request counters, the health      *)
(* status and the circuit breaker of one provider.  Not modelled: the      *)
(* response-time window, the per-type error tally, the hourly buckets and  *)
(* the lastUpdated / firstErrorTime / lastErrorTime / lastFailure stamps,  *)
(* which nothing in the status or the breaker reads.                       *)
(***************************************************************************)
Null == -1

FailureThreshold == 5
InitialCooldownMs == 60000
MaxCooldownMs == 300000
TickMs == 60 * 1000

RECURSIVE Pow(_, _)
Pow(b, e) == IF e = 0 THEN 1 ELSE b * Pow(b, e - 1)

NewCircuitBreaker ==
    [state |-> "closed", failures |-> 0, openedAt |-> Null, nextRetryAt |-> Null]

NewProviderMetrics ==
    [total |-> 0, successful |-> 0, failed |-> 0,
     retried |-> 0, timeout |-> 0, rateLimited |-> 0,
     consecutiveFailures |-> 0, maxConsecutiveFailures |-> 0,
     status |-> "healthy",
     circuitBreaker |-> NewCircuitBreaker]

\* getErrorRate(): (failed / total * 100).toFixed(2), in hundredths of a percent
ErrorRate(m) ==
    IF m.total = 0 THEN 0
    ELSE (2 * m.failed * 10000 + m.total) \div (2 * m.total)

\* mutant: a status derived from the exact quotient failed / total
UpdateStatusExactRate(m) ==
    LET recentFailures == m.consecutiveFailures
        AtLeast(percent) == m.total > 0 /\ m.failed * 100 >= percent * m.total
    IN  [m EXCEPT !.status =
            IF recentFailures >= 10 \/ AtLeast(50) THEN "critical"
            ELSE IF recentFailures >= 5 \/ AtLeast(25) THEN "degraded"
            ELSE IF AtLeast(10) THEN "warning"
            ELSE "healthy"]

\* _updateStatus()
UpdateStatus(m) ==
    LET errorRate == ErrorRate(m)
        recentFailures == m.consecutiveFailures
    IN  [m EXCEPT !.status =
            IF recentFailures >= 10 \/ errorRate >= 5000 THEN "critical"
            ELSE IF recentFailures >= 5 \/ errorRate >= 2500 THEN "degraded"
            ELSE IF errorRate >= 1000 THEN "warning"
            ELSE "healthy"]

\* mutant: a reopening without backoff
ReopenCooldownNoBackoff(failures) == InitialCooldownMs

\* mutant: a reopening whose backoff has no ceiling
ReopenCooldownUncapped(failures) == InitialCooldownMs * Pow(2, failures)

\* the cooldown of a reopening: Math.min(300000, 60000 * Math.pow(2, failures))
ReopenCooldown(failures) == Min(MaxCooldownMs, InitialCooldownMs * Pow(2, failures))

\* mutant: a success that leaves the failure count of a closed breaker alone
BreakerClosedNoReset(cb, result, t) ==
    IF result = "failure"
    THEN LET f == cb.failures + 1
         IN  IF f >= FailureThreshold
             THEN [cb EXCEPT !.failures = f, !.state = "open",
                             !.openedAt = t, !.nextRetryAt = t + InitialCooldownMs]
             ELSE [cb EXCEPT !.failures = f]
    ELSE cb

\* _updateCircuitBreaker(result): case 'closed'
BreakerClosed(cb, result, t) ==
    IF result = "failure"
    THEN LET f == cb.failures + 1
         IN  IF f >= FailureThreshold
             THEN [cb EXCEPT !.failures = f, !.state = "open",
                             !.openedAt = t, !.nextRetryAt = t + InitialCooldownMs]
             ELSE [cb EXCEPT !.failures = f]
    ELSE [cb EXCEPT !.failures = 0]

\* mutant: a record on an open breaker whose cooldown is over is the probe
BreakerOpenProbes(cb, result, t) ==
    IF t >= cb.nextRetryAt
    THEN IF result = "success"
         THEN [cb EXCEPT !.state = "closed", !.failures = 0,
                         !.openedAt = Null, !.nextRetryAt = Null]
         ELSE [cb EXCEPT !.failures = @ + 1, !.openedAt = t,
                         !.nextRetryAt = t + InitialCooldownMs]
    ELSE cb

\* _updateCircuitBreaker(result): case 'open'
BreakerOpen(cb, result, t) ==
    IF t >= cb.nextRetryAt THEN [cb EXCEPT !.state = "half-open"] ELSE cb

\* mutant: a probe success that closes the breaker but keeps its counters
BreakerHalfOpenKeepsCount(cb, result, t) ==
    IF result = "success"
    THEN [cb EXCEPT !.state = "closed"]
    ELSE LET f == cb.failures + 1
         IN  [cb EXCEPT !.state = "open", !.failures = f, !.openedAt = t,
                        !.nextRetryAt = t + InitialCooldownMs]

\* _updateCircuitBreaker(result): case 'half-open'
BreakerHalfOpen(cb, result, t) ==
    IF result = "success"
    THEN [cb EXCEPT !.state = "closed", !.failures = 0,
                    !.openedAt = Null, !.nextRetryAt = Null]
    ELSE LET f == cb.failures + 1
         IN  [cb EXCEPT !.state = "open", !.failures = f, !.openedAt = t,
                        !.nextRetryAt = t + ReopenCooldown(f)]

\* _updateCircuitBreaker(result)
UpdateCircuitBreaker(m, result, t) ==
    LET cb == m.circuitBreaker
    IN  [m EXCEPT !.circuitBreaker =
            CASE cb.state = "closed"    -> BreakerClosed(cb, result, t)
              [] cb.state = "open"      -> BreakerOpen(cb, result, t)
              [] cb.state = "half-open" -> BreakerHalfOpen(cb, result, t)]

\* recordSuccess()
MetricsRecordSuccess(m, t) ==
    LET m1 == [m EXCEPT !.total = @ + 1, !.successful = @ + 1,
                        !.consecutiveFailures = 0]
    IN  UpdateCircuitBreaker(UpdateStatus(m1), "success", t)

\* recordFailure()
MetricsRecordFailure(m, t) ==
    LET m1 == [m EXCEPT !.total = @ + 1, !.failed = @ + 1,
                        !.consecutiveFailures = @ + 1]
        m2 == [m1 EXCEPT !.maxConsecutiveFailures =
                            Max(@, m1.consecutiveFailures)]
    IN  UpdateCircuitBreaker(UpdateStatus(m2), "failure", t)

\* recordFailure(errorType, operation, isTimeout, isRateLimit)
MetricsRecordFailureFlagged(m, t, isTimeout, isRateLimit) ==
    LET m1 == [m EXCEPT !.timeout = IF isTimeout THEN @ + 1 ELSE @,
                        !.rateLimited = IF isRateLimit THEN @ + 1 ELSE @]
    IN  MetricsRecordFailure(m1, t)

\* mutant: a retry that counts as a request
MetricsRecordRetryCountsRequest(m) ==
    [m EXCEPT !.retried = @ + 1, !.total = @ + 1]

\* recordRetry()
MetricsRecordRetry(m) == [m EXCEPT !.retried = @ + 1]

\* isAvailable()
IsAvailable(m) == m.circuitBreaker.state # "open"

(***************************************************************************)
(* Callers of one provider's metrics.  Time passes between the calls.      *)
(***************************************************************************)
MaxRequests == 9
MaxTicks == 7
MaxRetried == 2
MaxFlagged == 2

InitMetrics ==
    /\ metrics = NewProviderMetrics
    /\ now = 0

Tick ==
    /\ now < MaxTicks * TickMs
    /\ now' = now + TickMs
    /\ UNCHANGED <<metrics, semVars, retryVars, batchVars, passVars, navVars, cacheVars>>

RecordSuccess ==
    /\ metrics.total < MaxRequests
    /\ metrics' = MetricsRecordSuccess(metrics, now)
    /\ UNCHANGED <<now, semVars, retryVars, batchVars, passVars, navVars, cacheVars>>

RecordFailure ==
    /\ metrics.total < MaxRequests
    /\ metrics' = MetricsRecordFailure(metrics, now)
    /\ UNCHANGED <<now, semVars, retryVars, batchVars, passVars, navVars, cacheVars>>

\* reset()
ResetMetrics ==
    /\ metrics' = NewProviderMetrics
    /\ UNCHANGED <<now, semVars, retryVars, batchVars, passVars, navVars, cacheVars>>

\* recordFailure with its timeout and rate-limit flags
RecordFailureFlagged ==
    /\ metrics.total < MaxRequests
    /\ \E isTimeout \in BOOLEAN, isRateLimit \in BOOLEAN :
         /\ isTimeout => metrics.timeout < MaxFlagged
         /\ isRateLimit => metrics.rateLimited < MaxFlagged
         /\ metrics' = MetricsRecordFailureFlagged(metrics, now, isTimeout, isRateLimit)
    /\ UNCHANGED <<now, semVars, retryVars, batchVars, passVars, navVars, cacheVars>>

RecordRetry ==
    /\ metrics.retried < MaxRetried
    /\ metrics' = MetricsRecordRetry(metrics)
    /\ UNCHANGED <<now, semVars, retryVars, batchVars, passVars, navVars, cacheVars>>

\* a caller that consults isAvailable() before it dispatches to the provider
GuardedRecordSuccess == IsAvailable(metrics) /\ RecordSuccess

GuardedRecordFailure == IsAvailable(metrics) /\ RecordFailure


(***************************************************************************)
(* One provider's metrics late in a long run: the counters after 10000     *)
(* records in which failures and successes alternated (no failure followed *)
(* a failure, the last record was a success, the breaker never opened),    *)
(* next to a fresh provider.                                               *)
(***************************************************************************)
LongRunTotal == 10000

LongRunFailed == {1000, 2500, 5000}

LongRunMetrics(failed) ==
    UpdateStatus([NewProviderMetrics EXCEPT
                     !.total = LongRunTotal,
                     !.failed = failed,
                     !.successful = LongRunTotal - failed,
                     !.maxConsecutiveFailures = 1])

InitLongRun ==
    /\ \/ metrics = NewProviderMetrics
       \/ \E failed \in LongRunFailed : metrics = LongRunMetrics(failed)
    /\ now = 0

\* the records made since the state the run was taken up in
RecordsSince(m) == m.total % LongRunTotal

LongRunRecordSuccess ==
    /\ RecordsSince(metrics) < MaxRequests
    /\ metrics' = MetricsRecordSuccess(metrics, now)
    /\ UNCHANGED <<now, semVars, retryVars, batchVars, passVars, navVars, cacheVars>>

LongRunRecordFailure ==
    /\ RecordsSince(metrics) < MaxRequests
    /\ metrics' = MetricsRecordFailure(metrics, now)
    /\ UNCHANGED <<now, semVars, retryVars, batchVars, passVars, navVars, cacheVars>>

(***************************************************************************)
(* Errors and withRetry (errors.js 2-204).                                 *)
(* An error is its class, its isOperational flag (AppError only), its code *)
(* and its message.  A delay is the exact rational num / den: the          *)
(* multipliers are dyadic, so the floating-point product is exact.         *)
(***************************************************************************)
MaxAttempts == 3

\* new AppError(message, code, statusCode, isOperational) and its subclasses
AppError(class, code, isOperational, message) ==
    [class |-> class, isAppError |-> TRUE, isOperational |-> isOperational,
     code |-> code, message |-> message]

\* a plain Error (not an AppError), with the code a transport failure carries
PlainError(code, message) ==
    [class |-> "Error", isAppError |-> FALSE, isOperational |-> FALSE,
     code |-> code, message |-> message]

NetworkError(message) == AppError("NetworkError", "NETWORK_ERROR", TRUE, message)
ValidationError(message) == AppError("ValidationError", "VALIDATION_ERROR", TRUE, message)

\* the errors an operation throws
OperationErrors ==
    { NetworkError("Always failing"),
      ValidationError("Invalid input"),
      AppError("AppError", "INTERNAL", FALSE, "Internal error"),
      PlainError("ENOTFOUND", "getaddrinfo ENOTFOUND"),
      PlainError("ECONNRESET", "socket hang up"),
      PlainError("NONE", "x is not a function") }

\* ErrorHandler.isOperationalError(error)
IsOperationalError(error) == error.isAppError /\ error.isOperational

\* the errors withRetry retries
Recoverable(error) ==
    IsOperationalError(error) \/ error.code = "ENOTFOUND" \/ error.code = "ECONNRESET"

\* mutant: every error is retried while attempts remain
ShouldRetryAnyError(r, error) == r.attempt < r.maxRetries

\* mutant: an off-by-one attempt test, which sleeps after the last failure too
ShouldRetryOffByOne(r, error) == r.attempt <= r.maxRetries /\ Recoverable(error)

\* withRetry: shouldRetry
ShouldRetry(r, error) == r.attempt < r.maxRetries /\ Recoverable(error)

\* mutant: the exponent is the attempt, not the attempt - 1
RetryDelayLate(r) ==
    [num |-> r.baseDelay * Pow(r.backoffMultiplier.num, r.attempt),
     den |-> Pow(r.backoffMultiplier.den, r.attempt)]

\* withRetry: delay = baseDelay * Math.pow(backoffMultiplier, attempt - 1)
RetryDelay(r) ==
    [num |-> r.baseDelay * Pow(r.backoffMultiplier.num, r.attempt - 1),
     den |-> Pow(r.backoffMultiplier.den, r.attempt - 1)]

\* new ProcessingError(message, step): the message is kept as its two parts
ProcessingError(attempts, cause, step) ==
    [class |-> "ProcessingError", attempts |-> attempts, cause |-> cause,
     step |-> step]

\* withRetry: the error raised once all retries failed
RetryFailure(r, lastError) ==
    ProcessingError(r.maxRetries, lastError.message,
                    IF r.operation = "" THEN "unknown" ELSE r.operation)

NoResult == [class |-> "none"]
SuccessValue == [class |-> "value", value |-> "success"]

\* the call withRetry(operation, maxRetries, baseDelay, backoffMultiplier, context);
\* operation "" stands for a context without an operation name
NewRetry(maxRetries, baseDelay, backoffMultiplier, operation) ==
    [pc |-> "call", maxRetries |-> maxRetries, baseDelay |-> baseDelay,
     backoffMultiplier |-> backoffMultiplier, operation |-> operation,
     attempt |-> 1, calls |-> 0, thrown |-> <<>>, sleeps |-> <<>>,
     result |-> NoResult]

RetryArguments ==
    { NewRetry(m, b, x, o) :
        m \in 1..MaxAttempts, b \in {100, 1000},
        x \in {[num |-> 3, den |-> 2], [num |-> 2, den |-> 1]},
        o \in {"", "test-retry"} }

InitRetry == retry \in RetryArguments

\* one pass of the loop body: the operation is invoked and fulfils
RetryAttemptSucceeds ==
    /\ retry.pc = "call"
    /\ retry' = [retry EXCEPT !.calls = @ + 1, !.pc = "returned",
                              !.result = SuccessValue]
    /\ UNCHANGED <<semVars, cbVars, batchVars, passVars, navVars, cacheVars>>

\* one pass of the loop body: the operation is invoked and throws
RetryAttemptFails ==
    /\ retry.pc = "call"
    /\ \E error \in OperationErrors :
         LET r == [retry EXCEPT !.calls = @ + 1, !.thrown = Append(@, error)]
         IN  retry' =
                IF ShouldRetry(r, error)
                THEN [r EXCEPT !.sleeps = Append(@, RetryDelay(r)), !.pc = "sleep"]
                ELSE [r EXCEPT !.pc = "rejected", !.result = RetryFailure(r, error)]
    /\ UNCHANGED <<semVars, cbVars, batchVars, passVars, navVars, cacheVars>>

\* the timer fires: attempt++, and the loop test
RetryWake ==
    /\ retry.pc = "sleep"
    /\ LET r == [retry EXCEPT !.attempt = @ + 1]
       IN  retry' =
              IF r.attempt <= r.maxRetries
              THEN [r EXCEPT !.pc = "call"]
              ELSE [r EXCEPT !.pc = "rejected",
                             !.result = RetryFailure(r, r.thrown[Len(r.thrown)])]
    /\ UNCHANGED <<semVars, cbVars, batchVars, passVars, navVars, cacheVars>>


(***************************************************************************)
(* BatchProcessor.processBatch (batch-processor.js 94-210, 312-372).       *)
(* Item i of the input is the value i.  A task is one item's               *)
(* semaphore.use(...) call of the batch under way:                         *)
(*   waiting    queued in the semaphore                                    *)
(*   granted    holds a permit, the processor not invoked yet              *)
(*   running    the processor is in flight                                 *)
(*   finishing  the processor has settled, the permit is still held        *)
(*   settled    the permit is released, the item's promise is settled      *)
(* Not modelled: the timestamp of an error record, console output, the     *)
(* performance monitor's measurements.                                     *)
(***************************************************************************)
MaxItems == 6
MaxBatchSize == 3
MaxConcurrency == 2

ConcurrencyCap == 20
ConcurrencyFloor == 2
WaitTimeCap == 10

\* what the processor fulfils with for an item, and the error record of an item
Value(item) == [kind |-> "value", item |-> item, message |-> ""]
Undefined == [kind |-> "undefined", item |-> 0, message |-> ""]
ErrorRecord(item, message) == [kind |-> "error", item |-> item, message |-> message]
NoEntry == [kind |-> "none", item |-> 0, message |-> ""]

\* the rejection of an item's promise (the catch block itself threw)
Rejection(item, message) == [kind |-> "rejection", item |-> item, message |-> message]

\* the outcomes of one invocation of the processor: it fulfils with a value,
\* fulfils with undefined (or null), throws an Error, or throws null (or
\* undefined), on which the catch block's error.message throws a TypeError
ProcessorOutcomes == {"value", "undefined", "throws", "throwsNull"}
ProcessorMessage == "processor failed"
TypeErrorMessage == "Cannot read properties of null (reading 'message')"

\* the task of an item: try { return await processor(item) } catch { ... }
TaskOutcome(item, outcome) ==
    CASE outcome = "value"      -> Value(item)
      [] outcome = "undefined"  -> Undefined
      [] outcome = "throws"     -> ErrorRecord(item, ProcessorMessage)
      [] outcome = "throwsNull" -> Rejection(item, TypeErrorMessage)

\* processSingleBatch: the entry made of a settled promise
ProcessedResult(item, settled) ==
    IF settled.kind = "rejection"
    THEN ErrorRecord(item, settled.message)
    ELSE settled

\* createBatches(items): the items (indices) of batch number batchIndex (from 0)
BatchItems(n, batchSize, batchIndex) ==
    {i \in 1..n : i > batchIndex * batchSize /\ i <= (batchIndex + 1) * batchSize}

\* mutant: one batch too many when the items fill the batches exactly
BatchCountOffByOne(n, batchSize) == n \div batchSize + 1

\* createBatches(items): the number of batches
BatchCount(n, batchSize) == (n + batchSize - 1) \div batchSize

\* processSingleBatch: batch.map(...) calls semaphore.use for the items in
\* order; each call runs acquire() at once.  The semaphore after the calls of
\* the items from..to.
RECURSIVE AcquireAll(_, _, _)
AcquireAll(s, from, to) ==
    IF from > to THEN s ELSE AcquireAll(SemAcquire(s, from), from + 1, to)

\* r.error, read by the filters of processSingleBatch: a TypeError when r is
\* undefined or null
ReadingErrorThrows(entry) == entry.kind = "undefined"

\* Semaphore.getStats(): utilization < 0.7, utilization > 0.9
UtilizationBelow70(s) == IF s.capacity > 0 THEN 10 * s.running < 7 * s.capacity ELSE TRUE
UtilizationAbove90(s) == IF s.capacity > 0 THEN 10 * s.running > 9 * s.capacity ELSE FALSE

\* mutant: an adjustment that resizes the semaphore and keeps no record
AdjustConcurrencyUnrecorded(st, newConcurrency, reason) ==
    IF newConcurrency = st.bp.maxConcurrency THEN st
    ELSE [bp  |-> [st.bp EXCEPT !.maxConcurrency = newConcurrency],
          sem |-> SemResize(st.sem, newConcurrency),
          woken |-> st.woken \cup ResizeWoken(st.sem, newConcurrency)]

\* _adjustConcurrency(newConcurrency, reason) on the pair [bp, sem]
AdjustConcurrency(st, newConcurrency, reason) ==
    IF newConcurrency = st.bp.maxConcurrency THEN st
    ELSE [bp  |-> [st.bp EXCEPT !.maxConcurrency = newConcurrency,
                                !.concurrencyChanges =
                                    Append(@, [old |-> st.bp.maxConcurrency,
                                               new |-> newConcurrency,
                                               reason |-> reason])],
          sem |-> SemResize(st.sem, newConcurrency),
          woken |-> st.woken \cup ResizeWoken(st.sem, newConcurrency)]

\* mutant: a scale-down rule that does not consult the utilization
CheckAndAdjustConcurrencyAnyUtilization(bp, sem, highWait) ==
    LET stats == sem
        st0 == [bp |-> bp, sem |-> sem, woken |-> {}]
        up == Min(st0.bp.maxConcurrency * 2, ConcurrencyCap)
        st1 == IF Len(stats.queue) > 5 /\ UtilizationBelow70(stats)
                    /\ up > st0.bp.maxConcurrency
               THEN AdjustConcurrency(st0, up, "High queue, low utilization")
               ELSE st0
        down == Max(ConcurrencyFloor, (st1.bp.maxConcurrency * 8) \div 10)
        st2 == IF Len(stats.queue) = 0
                    /\ st1.bp.maxConcurrency > ConcurrencyFloor
                    /\ down < st1.bp.maxConcurrency
               THEN AdjustConcurrency(st1, down, "Low queue, high utilization")
               ELSE st1
        more == Min(st2.bp.maxConcurrency + 2, WaitTimeCap)
    IN  IF highWait /\ st2.bp.maxConcurrency < WaitTimeCap
        THEN AdjustConcurrency(st2, more, "High wait times")
        ELSE st2

\* _checkAndAdjustConcurrency() once the check interval has elapsed; highWait
\* is stats.avgWaitTime > 1000
CheckAndAdjustConcurrency(bp, sem, highWait) ==
    LET stats == sem
        st0 == [bp |-> bp, sem |-> sem, woken |-> {}]
        up == Min(st0.bp.maxConcurrency * 2, ConcurrencyCap)
        st1 == IF Len(stats.queue) > 5 /\ UtilizationBelow70(stats)
                    /\ up > st0.bp.maxConcurrency
               THEN AdjustConcurrency(st0, up, "High queue, low utilization")
               ELSE st0
        down == Max(ConcurrencyFloor, (st1.bp.maxConcurrency * 8) \div 10)
        st2 == IF Len(stats.queue) = 0 /\ UtilizationAbove90(stats)
                    /\ st1.bp.maxConcurrency > ConcurrencyFloor
                    /\ down < st1.bp.maxConcurrency
               THEN AdjustConcurrency(st1, down, "Low queue, high utilization")
               ELSE st1
        more == Min(st2.bp.maxConcurrency + 2, WaitTimeCap)
    IN  IF highWait /\ st2.bp.maxConcurrency < WaitTimeCap
        THEN AdjustConcurrency(st2, more, "High wait times")
        ELSE st2

\* new BatchProcessor(options)
NewBatchProcessor(batchSize, maxConcurrency, adaptiveConcurrency) ==
    [batchSize |-> batchSize, maxConcurrency |-> maxConcurrency,
     adaptiveConcurrency |-> adaptiveConcurrency,
     totalProcessed |-> 0, totalFailed |-> 0, batchCount |-> 0,
     concurrencyChanges |-> <<>>]

\* the call processBatch(items, processor) with n items
NewRun(n, processorIsFunction) ==
    [pc |-> "start", n |-> n, processorIsFunction |-> processorIsFunction,
     batchIndex |-> 0, results |-> <<>>, error |-> "none"]

NoTasks == [i \in {} |-> NoEntry]

InitBatch ==
    /\ \E batchSize \in 1..MaxBatchSize, maxConcurrency \in 1..MaxConcurrency,
          adaptiveConcurrency \in BOOLEAN :
         /\ batchProcessor =
                NewBatchProcessor(batchSize, maxConcurrency, adaptiveConcurrency)
         /\ semaphore = NewSemaphore(maxConcurrency)
    /\ \E n \in 0..MaxItems, processorIsFunction \in BOOLEAN :
         /\ run = NewRun(n, processorIsFunction)
         /\ processorLog = [i \in 1..n |-> [calls |-> 0, outcome |-> "none"]]
    /\ tasks = NoTasks
    /\ held = {}

\* processSingleBatch(batch, ...) up to its await: the tasks of the batch and
\* the semaphore after batch.map
DispatchBatch(batchIndex) ==
    LET batch == BatchItems(run.n, batchProcessor.batchSize, batchIndex)
        first == batchIndex * batchProcessor.batchSize + 1
        sem == AcquireAll(semaphore, first, first + Cardinality(batch) - 1)
    IN  /\ semaphore' = sem
        /\ tasks' = [i \in batch |->
                        [pc |-> IF AcquireGranted(sem, i) THEN "granted" ELSE "waiting",
                         out |-> NoEntry]]
        /\ held' = held \cup {i \in batch : AcquireGranted(sem, i)}

\* processBatch up to its first await: the argument checks, createBatches and
\* the dispatch of the first batch
ProcessBatchStart ==
    /\ run.pc = "start"
    /\ IF run.n = 0
       THEN /\ run' = [run EXCEPT !.pc = "returned"]
            /\ UNCHANGED <<semaphore, held, tasks>>
       ELSE IF ~run.processorIsFunction
       THEN /\ run' = [run EXCEPT !.pc = "rejected", !.error = "ProcessingError"]
            /\ UNCHANGED <<semaphore, held, tasks>>
       ELSE /\ run' = [run EXCEPT !.pc = "batch"]
            /\ DispatchBatch(0)
    /\ UNCHANGED <<batchProcessor, processorLog, cbVars, retryVars, passVars, navVars, cacheVars>>

\* semaphore.use: the permit is there, the task invokes processor(item)
InvokeProcessor ==
    /\ run.pc = "batch"
    /\ \E i \in DOMAIN tasks :
         /\ tasks[i].pc = "granted"
         /\ tasks' = [tasks EXCEPT ![i].pc = "running"]
         /\ processorLog' = [processorLog EXCEPT ![i].calls = @ + 1]
    /\ UNCHANGED <<batchProcessor, run, semVars, cbVars, retryVars, passVars, navVars, cacheVars>>

\* the processor settles: the task's try / catch makes the item's entry
ProcessorSettles ==
    /\ run.pc = "batch"
    /\ \E i \in DOMAIN tasks, outcome \in ProcessorOutcomes :
         /\ tasks[i].pc = "running"
         /\ processorLog' = [processorLog EXCEPT ![i].outcome = outcome]
         /\ tasks' = [tasks EXCEPT ![i] =
                [pc |-> "finishing", out |-> TaskOutcome(i, outcome)]]
         /\ batchProcessor' =
                IF outcome \in {"throws", "throwsNull"}
                THEN [batchProcessor EXCEPT !.totalFailed = @ + 1]
                ELSE batchProcessor
    /\ UNCHANGED <<run, semVars, cbVars, retryVars, passVars, navVars, cacheVars>>

\* mutant: a use() that releases after a fulfilled task only
TaskReleasesOnFulfilOnly ==
    /\ run.pc = "batch"
    /\ \E i \in DOMAIN tasks :
         /\ tasks[i].pc = "finishing"
         /\ IF tasks[i].out.kind = "rejection"
            THEN /\ UNCHANGED <<semaphore, held>>
                 /\ tasks' = [tasks EXCEPT ![i].pc = "settled"]
            ELSE /\ semaphore' = SemRelease(semaphore)
                 /\ held' = (held \ {i}) \cup ReleaseWoken(semaphore)
                 /\ tasks' = [j \in DOMAIN tasks |->
                                IF j = i THEN [tasks[j] EXCEPT !.pc = "settled"]
                                ELSE IF j \in ReleaseWoken(semaphore)
                                THEN [tasks[j] EXCEPT !.pc = "granted"]
                                ELSE tasks[j]]
    /\ UNCHANGED <<batchProcessor, run, processorLog, cbVars, retryVars, passVars, navVars, cacheVars>>

\* semaphore.use: finally release(), which hands the slot to the next waiter
TaskReleases ==
    /\ run.pc = "batch"
    /\ \E i \in DOMAIN tasks :
         /\ tasks[i].pc = "finishing"
         /\ semaphore' = SemRelease(semaphore)
         /\ held' = (held \ {i}) \cup ReleaseWoken(semaphore)
         /\ tasks' = [j \in DOMAIN tasks |->
                        IF j = i THEN [tasks[j] EXCEPT !.pc = "settled"]
                        ELSE IF j \in ReleaseWoken(semaphore)
                        THEN [tasks[j] EXCEPT !.pc = "granted"]
                        ELSE tasks[j]]
    /\ UNCHANGED <<batchProcessor, run, processorLog, cbVars, retryVars, passVars, navVars, cacheVars>>

\* the entries of the settled batch, in the order of its items
RECURSIVE BatchEntries(_, _)
BatchEntries(from, to) ==
    IF from > to THEN <<>>
    ELSE <<ProcessedResult(from, tasks[from].out)>> \o BatchEntries(from + 1, to)

\* Promise.allSettled has settled: the rest of processSingleBatch, and of the
\* loop body of processBatch up to its next await (or its return)
JoinBatch ==
    /\ run.pc = "batch"
    /\ \A i \in DOMAIN tasks : tasks[i].pc = "settled"
    /\ LET batch == DOMAIN tasks
           first == run.batchIndex * batchProcessor.batchSize + 1
           processedResults == BatchEntries(first, first + Cardinality(batch) - 1)
           rejected == {i \in batch : tasks[i].out.kind = "rejection"}
           counted == [batchProcessor EXCEPT
                          !.totalProcessed = @ + Cardinality(batch \ rejected),
                          !.totalFailed = @ + Cardinality(rejected)]
           last == run.batchIndex >=
                       BatchCount(run.n, batchProcessor.batchSize) - 1
       IN  IF \E k \in 1..Len(processedResults) :
                   ReadingErrorThrows(processedResults[k])
           THEN \* the success / failure count of the batch throws a TypeError
                /\ run' = [run EXCEPT !.pc = "rejected", !.error = "TypeError"]
                /\ batchProcessor' = counted
                /\ UNCHANGED <<semaphore, held>>
           ELSE \E intervalElapsed \in BOOLEAN,
                   highWait \in (IF semaphore.hasWaitTime THEN BOOLEAN ELSE {FALSE}) :
                  LET bp == [counted EXCEPT !.batchCount = @ + 1]
                      st == IF bp.adaptiveConcurrency /\ intervalElapsed
                            THEN CheckAndAdjustConcurrency(bp, semaphore, highWait)
                            ELSE [bp |-> bp, sem |-> semaphore, woken |-> {}]
                  IN  /\ batchProcessor' = st.bp
                      /\ semaphore' = st.sem
                      /\ held' = held \cup st.woken
                      /\ run' = [run EXCEPT
                                    !.results = @ \o processedResults,
                                    !.pc = IF last THEN "returned" ELSE "delay"]
    /\ tasks' = NoTasks
    /\ UNCHANGED <<processorLog, cbVars, retryVars, passVars, navVars, cacheVars>>

\* the delay between two batches is over: the next batch is dispatched
NextBatch ==
    /\ run.pc = "delay"
    /\ run' = [run EXCEPT !.pc = "batch", !.batchIndex = @ + 1]
    /\ DispatchBatch(run.batchIndex + 1)
    /\ UNCHANGED <<batchProcessor, processorLog, cbVars, retryVars, passVars, navVars, cacheVars>>

(***************************************************************************)
(* A BatchProcessor whose semaphore is in use while the adaptive checks    *)
(* run (processBatch runs that share the processor): acquire and release   *)
(* calls on its semaphore, and _checkAndAdjustConcurrency at any time.     *)
(***************************************************************************)
MaxChanges == 3

\* new BatchProcessor({maxConcurrency})
InitAdaptive ==
    /\ \E maxConcurrency \in (1..MaxConcurrency) \cup {WaitTimeCap - 1} :
         /\ batchProcessor = NewBatchProcessor(1, maxConcurrency, TRUE)
         /\ semaphore = NewSemaphore(maxConcurrency)
    /\ run = NewRun(0, TRUE)
    /\ tasks = NoTasks
    /\ processorLog = <<>>
    /\ held = {}

\* _checkAndAdjustConcurrency(), the check interval having elapsed
AdaptiveCheck ==
    /\ Len(batchProcessor.concurrencyChanges) < MaxChanges
    /\ \E highWait \in (IF semaphore.hasWaitTime THEN BOOLEAN ELSE {FALSE}) :
         LET st == CheckAndAdjustConcurrency(batchProcessor, semaphore, highWait)
         IN  /\ batchProcessor' = st.bp
             /\ semaphore' = st.sem
             /\ held' = held \cup st.woken
    /\ UNCHANGED <<run, tasks, processorLog, cbVars, retryVars, passVars, navVars, cacheVars>>

(***************************************************************************)
(* BatchProcessor.processWithRetry (batch-processor.js 241-279).           *)
(* A pass is one call of processBatch, taken as one step: outcomes[k] is   *)
(* what the processor does for items[k] in that pass.  calls counts the    *)
(* processor's invocations per item of the original input, succeeded is    *)
(* the set of items the processor has fulfilled for with a value.          *)
(***************************************************************************)
MaxPassItems == 2
MaxPassRetries == 2

BackoffBaseMs == 1000

\* processBatch: how many of the items have their processor invoked; the run
\* ends with the first batch in which the processor fulfils with undefined
InvokedCount(n, outcomes, batchSize) ==
    LET throwing == {k \in 1..n : outcomes[k] = "undefined"}
    IN  IF throwing = {} THEN n
        ELSE LET first == CHOOSE k \in throwing : \A j \in throwing : k <= j
             IN  Min(n, ((first - 1) \div batchSize + 1) * batchSize)

\* processBatch(items, processor) from call to settlement
ProcessBatchOutcome(items, outcomes, batchSize, processorIsFunction) ==
    IF Len(items) = 0
    THEN [pc |-> "returned", results |-> <<>>, error |-> "none", invoked |-> 0]
    ELSE IF ~processorIsFunction
    THEN [pc |-> "rejected", results |-> <<>>, error |-> "ProcessingError",
          invoked |-> 0]
    ELSE IF \E k \in 1..Len(items) : outcomes[k] = "undefined"
    THEN [pc |-> "rejected", results |-> <<>>, error |-> "TypeError",
          invoked |-> InvokedCount(Len(items), outcomes, batchSize)]
    ELSE [pc |-> "returned",
          results |-> [k \in 1..Len(items) |->
                         ProcessedResult(items[k], TaskOutcome(items[k], outcomes[k]))],
          error |-> "none", invoked |-> Len(items)]

\* r => r.error, for the entries of a returned array
IsErrorRecord(r) == r.kind = "error"

\* errors.map(e => e.item)
ErrorItems(results) ==
    LET errors == SelectSeq(results, IsErrorRecord)
    IN  [k \in 1..Len(errors) |-> errors[k].item]

\* the delay before the next pass: 1000 * Math.pow(2, attempts)
PassBackoff(attempts) == BackoffBaseMs * Pow(2, attempts)

\* the call processWithRetry(items, processor, maxRetries) with n items, on a
\* BatchProcessor of the given batch size
NewPasses(n, maxRetries, batchSize, processorIsFunction) ==
    [pc |-> "pass", n |-> n, items |-> [k \in 1..n |-> k],
     maxRetries |-> maxRetries, batchSize |-> batchSize,
     processorIsFunction |-> processorIsFunction,
     attempts |-> 0, runs |-> 0, rejections |-> 0,
     calls |-> [i \in 1..n |-> 0], succeeded |-> {}, retried |-> {},
     sleeps |-> <<>>, lastError |-> "none", results |-> <<>>, error |-> "none"]

InitPasses ==
    \E n \in 0..MaxPassItems, maxRetries \in 0..MaxPassRetries,
       batchSize \in 1..MaxBatchSize, processorIsFunction \in BOOLEAN :
        passes = NewPasses(n, maxRetries, batchSize, processorIsFunction)

\* one pass of the while loop, up to its return, its throw or its delay
ProcessPass ==
    /\ passes.pc = "pass"
    /\ \E outcomes \in [1..Len(passes.items) -> ProcessorOutcomes] :
         LET out == ProcessBatchOutcome(passes.items, outcomes, passes.batchSize,
                                        passes.processorIsFunction)
             invoked == {passes.items[k] : k \in 1..out.invoked}
             p == [passes EXCEPT
                     !.runs = @ + 1,
                     !.calls = [i \in 1..passes.n |->
                                  IF i \in invoked THEN @[i] + 1 ELSE @[i]],
                     !.retried = @ \cup (invoked \cap passes.succeeded),
                     !.succeeded = @ \cup {passes.items[k] : k \in
                                     {j \in 1..out.invoked : outcomes[j] = "value"}}]
         IN  passes' =
               IF out.pc = "returned"
               THEN IF Len(ErrorItems(out.results)) = 0 \/ p.attempts = p.maxRetries
                    THEN [p EXCEPT !.pc = "returned", !.results = out.results]
                    ELSE [p EXCEPT !.pc = "sleep",
                                   !.items = ErrorItems(out.results),
                                   !.attempts = @ + 1,
                                   !.sleeps = Append(@, PassBackoff(p.attempts + 1))]
               ELSE LET q == [p EXCEPT !.lastError = out.error,
                                       !.rejections = @ + 1,
                                       !.attempts = @ + 1]
                    IN  IF q.attempts <= q.maxRetries
                        THEN [q EXCEPT !.pc = "sleep",
                                       !.sleeps = Append(@, PassBackoff(q.attempts))]
                        ELSE [q EXCEPT !.pc = "rejected",
                                       !.error = "ProcessingError"]
    /\ UNCHANGED <<semVars, cbVars, retryVars, batchVars, navVars, cacheVars>>

\* the delay is over: the loop test
PassWake ==
    /\ passes.pc = "sleep"
    /\ passes' = IF passes.attempts <= passes.maxRetries
                 THEN [passes EXCEPT !.pc = "pass"]
                 ELSE [passes EXCEPT !.pc = "rejected", !.error = "ProcessingError"]
    /\ UNCHANGED <<semVars, cbVars, retryVars, batchVars, navVars, cacheVars>>


(***************************************************************************)
(* SyosetuParser (part_001 1-26) and ChapterNavigator (part_007 268-584).  *)
(* A URL is its host, its series id and its chapter number; NullUrl is a   *)
(* null or empty identifier.  The navigator runs with the default          *)
(* autoContinue: true, so the interactive prompt is never reached.  Not    *)
(* modelled: the lengths of the adaptive and of the error delay (the       *)
(* delays themselves are steps), console output.  The locals attempt,      *)
(* nextUrl and the caught chapterError are cleared once nothing reads them *)
(* any more.                                                               *)
(*   loop        about to run the while test                               *)
(*   call        inside withRetry, the step function is in flight          *)
(*   retrySleep  inside withRetry, between two attempts                    *)
(*   delay       a result was added, the inter-step delay runs             *)
(*   errorDelay  the step failed, the error backoff runs                   *)
(***************************************************************************)
MaxChapterNumber == 3
MaxChapters == 3
MaxRuns == 2
MaxFaults == 3

StepMaxRetries == 3
MaxConsecutiveErrors == 3

NullUrl == [host |-> "", series |-> "", chapter |-> 0]
SyosetuUrl(n) == [host |-> "ncode.syosetu.com", series |-> "n1234a", chapter |-> n]
ForeignUrl(n) == [host |-> "example.com", series |-> "chapter", chapter |-> n]

\* SyosetuParser.parseUrl(url): whether the URL matches the pattern (the call
\* throws an Error otherwise)
ParseUrlMatches(url) == url.host = "ncode.syosetu.com"

\* SyosetuParser.buildChapterUrl(seriesId, chapterNumber)
BuildChapterUrl(seriesId, chapterNumber) ==
    [host |-> "ncode.syosetu.com", series |-> seriesId, chapter |-> chapterNumber]

\* new NavigationError(message, url, step)
NavigationError(message, url, step) ==
    [class |-> "NavigationError", message |-> message, url |-> url, step |-> step]

\* new ValidationError(message, field), as processChapterSequence raises it
FieldError(message, field) ==
    [class |-> "ValidationError", message |-> message, url |-> NullUrl,
     step |-> field]

NoError == [class |-> "none", message |-> "", url |-> NullUrl, step |-> ""]

\* mutant: a fallback rule that derives a next identifier from any URL
ProcessNextChapterNeverFails(currentUrl) ==
    [ok |-> TRUE,
     url |-> [currentUrl EXCEPT !.chapter = @ + 1],
     message |-> ""]

\* processNextChapter(currentUrl): the fallback navigation rule
ProcessNextChapter(currentUrl) ==
    IF currentUrl = NullUrl
    THEN [ok |-> FALSE, url |-> NullUrl,
          message |-> "Invalid current URL provided for next chapter navigation"]
    ELSE IF ~ParseUrlMatches(currentUrl)
    THEN [ok |-> FALSE, url |-> NullUrl,
          message |-> "Failed to generate next chapter URL"]
    ELSE [ok |-> TRUE,
          url |-> BuildChapterUrl(currentUrl.series, currentUrl.chapter + 1),
          message |-> ""]

\* what the step function returns: a chapter with a title and a next link, a
\* chapter without a title, or nothing
Chapter(url, titled, nextChapterUrl) ==
    [kind |-> "chapter", url |-> url, titled |-> titled,
     nextChapterUrl |-> nextChapterUrl]
NoChapter == [kind |-> "null", url |-> NullUrl, titled |-> FALSE,
              nextChapterUrl |-> NullUrl]

NextLinks == {NullUrl} \cup {SyosetuUrl(n) : n \in 1..MaxChapterNumber}

StepResults(url) ==
    {Chapter(url, TRUE, next) : next \in NextLinks}
        \cup {Chapter(url, FALSE, NullUrl), NoChapter}

\* the errors the step function throws
StepErrors ==
    { PlainError("NONE", "Temporary error"),
      PlainError("NONE", "Chapter not found (404)"),
      NetworkError("Connection lost"),
      NetworkError("Not Found") }

\* !result || !result.title
InvalidChapter(result) == result.kind = "null" \/ ~result.titled

\* new ProcessingError('Invalid chapter data received from processor')
InvalidChapterData ==
    ProcessingError(0, "Invalid chapter data received from processor", "null")

\* mutant: only '404' signals not-found
SignalsNotFoundOnly404(error) == error.cause = "Chapter not found (404)"

\* message.includes('404') || message.includes('Not Found'), for the message
\* "Operation failed after 3 attempts: " + cause, or the bare cause
SignalsNotFound(error) ==
    error.cause \in {"Chapter not found (404)", "Not Found"}

\* new ChapterNavigator(config)
NewChapterNavigator(maxChapters) ==
    [maxChapters |-> maxChapters, processedChapters |-> {},
     consecutiveErrors |-> 0]

NoSequence ==
    [pc |-> "idle", run |-> 0, startUrl |-> NullUrl, currentUrl |-> NullUrl,
     nextUrl |-> NullUrl, chapterCount |-> 0, results |-> <<>>,
     attempt |-> 0, calls |-> 0,
     chapterError |-> NoResult, error |-> NoError]

InitNavigator ==
    /\ \E maxChapters \in 1..MaxChapters :
         navigator = NewChapterNavigator(maxChapters)
    /\ sequence = NoSequence

\* the invocations of the step function that have thrown or have returned no
\* valid chapter, while none is in flight
Faults(seq) ==
    seq.calls - Len(seq.results) - (IF seq.pc = "call" THEN 1 ELSE 0)

\* mutant: a report without the last identifier
ReturnedWithoutLastUrl(seq) == [seq EXCEPT !.pc = "returned", !.currentUrl = NullUrl]

\* the return statement: the report is results, chapterCount, startUrl and
\* currentUrl as they stand
Returned(seq) == [seq EXCEPT !.pc = "returned"]

\* mutant: a loop without the processed test
EnterLoopNoProcessedTest(nav, seq) ==
    IF seq.currentUrl # NullUrl /\ seq.chapterCount < nav.maxChapters
    THEN [seq EXCEPT !.pc = "call", !.attempt = 1, !.calls = @ + 1]
    ELSE [seq EXCEPT !.pc = "returned"]

\* mutant: an off-by-one loop guard
EnterLoopOffByOne(nav, seq) ==
    IF seq.currentUrl # NullUrl /\ seq.chapterCount <= nav.maxChapters
    THEN IF seq.currentUrl \in nav.processedChapters
         THEN [seq EXCEPT !.pc = "returned"]
         ELSE [seq EXCEPT !.pc = "call", !.attempt = 1, !.calls = @ + 1]
    ELSE [seq EXCEPT !.pc = "returned"]

\* the while test, the processed test and the call of withRetry, which
\* invokes the step function for currentUrl
EnterLoop(nav, seq) ==
    IF seq.currentUrl # NullUrl /\ seq.chapterCount < nav.maxChapters
    THEN IF seq.currentUrl \in nav.processedChapters
         THEN Returned(seq)
         ELSE [seq EXCEPT !.pc = "call", !.attempt = 1, !.calls = @ + 1]
    ELSE Returned(seq)

\* mutant: a failed step that leaves the consecutive-error counter alone
ChapterFailsNoCount(nav, seq, chapterError) ==
    [nav |-> nav,
     seq |-> LET seq1 == [seq EXCEPT !.chapterError = chapterError,
                                     !.attempt = 0]
             IN  IF SignalsNotFound(chapterError)
                 THEN Returned(seq1)
                 ELSE [seq1 EXCEPT !.pc = "errorDelay"]]

\* mutant: a failed step rejects the run with the error as it stands
ChapterFailsRethrows(nav, seq, chapterError) ==
    [nav |-> [nav EXCEPT !.consecutiveErrors = @ + 1],
     seq |-> [seq EXCEPT !.pc = "rejected", !.attempt = 0,
                 !.error = [class |-> chapterError.class,
                            message |-> chapterError.cause,
                            url |-> seq.currentUrl, step |-> "processChapter"]]]

\* catch (chapterError), up to its break or its error delay
ChapterFails(nav, seq, chapterError) ==
    [nav |-> [nav EXCEPT !.consecutiveErrors = @ + 1],
     seq |-> LET seq1 == [seq EXCEPT !.chapterError = chapterError,
                                     !.attempt = 0]
             IN  IF SignalsNotFound(chapterError)
                 THEN Returned(seq1)
                 ELSE [seq1 EXCEPT !.pc = "errorDelay"]]

\* mutant: the next step is invoked as soon as a result has arrived
ChapterArrivesNoDelay(nav, seq, result) ==
    IF InvalidChapter(result)
    THEN ChapterFails(nav, seq, InvalidChapterData)
    ELSE LET seq1 == [seq EXCEPT !.results = Append(@, result),
                                 !.chapterCount = @ + 1,
                                 !.attempt = 0]
             nav1 == [nav EXCEPT !.processedChapters = @ \cup {seq.currentUrl}]
         IN  [nav |-> nav1,
              seq |-> IF result.nextChapterUrl = NullUrl
                      THEN Returned(seq1)
                      ELSE EnterLoop(nav1, [seq1 EXCEPT
                                              !.currentUrl = result.nextChapterUrl])]

\* the lines after withRetry has returned a result
ChapterArrives(nav, seq, result) ==
    IF InvalidChapter(result)
    THEN ChapterFails(nav, seq, InvalidChapterData)
    ELSE LET seq1 == [seq EXCEPT !.results = Append(@, result),
                                 !.chapterCount = @ + 1,
                                 !.nextUrl = result.nextChapterUrl,
                                 !.attempt = 0]
         IN  [nav |-> [nav EXCEPT !.processedChapters = @ \cup {seq.currentUrl}],
              seq |-> IF result.nextChapterUrl = NullUrl
                      THEN Returned(seq1)
                      ELSE [seq1 EXCEPT !.pc = "delay"]]

\* processChapterSequence(startUrl, processor) up to its first await
StartSequence ==
    /\ sequence.pc \in {"idle", "returned", "rejected"}
    /\ sequence.run < MaxRuns
    /\ \E startUrl \in {NullUrl, SyosetuUrl(1), ForeignUrl(1)},
          processorIsFunction \in BOOLEAN :
         LET seq == [NoSequence EXCEPT
                        !.run = sequence.run + 1,
                        !.startUrl = startUrl, !.currentUrl = startUrl]
         IN  sequence' =
               IF startUrl = NullUrl
               THEN [seq EXCEPT !.pc = "rejected",
                        !.error = FieldError("Invalid start URL provided", "startUrl")]
               ELSE IF ~processorIsFunction
               THEN [seq EXCEPT !.pc = "rejected",
                        !.error = FieldError("Processor function is required",
                                             "processor")]
               ELSE EnterLoop(navigator, seq)
    /\ UNCHANGED <<navigator, semVars, cbVars, retryVars, batchVars, passVars, cacheVars>>

\* the step function fulfils: withRetry returns its result
StepReturns ==
    /\ sequence.pc = "call"
    /\ \E result \in StepResults(sequence.currentUrl) :
         /\ InvalidChapter(result) => Faults(sequence) < MaxFaults
         /\ LET st == ChapterArrives(navigator, sequence, result)
            IN  /\ navigator' = st.nav
                /\ sequence' = st.seq
    /\ UNCHANGED <<semVars, cbVars, retryVars, batchVars, passVars, cacheVars>>

\* the step function throws: withRetry sleeps before the next attempt, or
\* raises its ProcessingError
StepThrows ==
    /\ sequence.pc = "call"
    /\ Faults(sequence) < MaxFaults
    /\ \E error \in StepErrors :
         LET r == [attempt |-> sequence.attempt, maxRetries |-> StepMaxRetries,
                   operation |-> "processChapter"]
             seq == sequence
         IN  IF ShouldRetry(r, error)
             THEN /\ sequence' = [seq EXCEPT !.pc = "retrySleep"]
                  /\ UNCHANGED navigator
             ELSE LET st == ChapterFails(navigator, seq, RetryFailure(r, error))
                  IN  /\ navigator' = st.nav
                      /\ sequence' = st.seq
    /\ UNCHANGED <<semVars, cbVars, retryVars, batchVars, passVars, cacheVars>>

\* withRetry: the delay is over, the step function is invoked again
StepRetryWake ==
    /\ sequence.pc = "retrySleep"
    /\ sequence' = [sequence EXCEPT !.pc = "call", !.attempt = @ + 1,
                                    !.calls = @ + 1]
    /\ UNCHANGED <<navigator, semVars, cbVars, retryVars, batchVars, passVars, cacheVars>>

\* the inter-step delay is over: currentUrl = nextUrl, the counter is reset,
\* and the loop goes round
StepDelayElapsed ==
    /\ sequence.pc = "delay"
    /\ navigator' = [navigator EXCEPT !.consecutiveErrors = 0]
    /\ sequence' = EnterLoop(navigator,
                             [sequence EXCEPT !.currentUrl = sequence.nextUrl,
                                              !.nextUrl = NullUrl])
    /\ UNCHANGED <<semVars, cbVars, retryVars, batchVars, passVars, cacheVars>>

\* the error delay is over: the fallback navigation, or the abort
ErrorDelayElapsed ==
    /\ sequence.pc = "errorDelay"
    /\ LET fallback == ProcessNextChapter(sequence.currentUrl)
       IN  sequence' =
             IF navigator.consecutiveErrors < MaxConsecutiveErrors
             THEN IF fallback.ok
                  THEN EnterLoop(navigator,
                                 [sequence EXCEPT !.currentUrl = fallback.url,
                                                  !.chapterError = NoResult])
                  ELSE [sequence EXCEPT !.pc = "rejected",
                          !.error = NavigationError(
                              "Failed to navigate to next chapter after error",
                              sequence.currentUrl, "nextChapter")]
             ELSE [sequence EXCEPT !.pc = "rejected",
                     !.error = NavigationError(
                         "Chapter processing failed",
                         sequence.currentUrl, "processChapter")]
    /\ UNCHANGED <<navigator, semVars, cbVars, retryVars, batchVars, passVars, cacheVars>>


(***************************************************************************)
(* One run without the cap on failed invocations: the step function may    *)
(* fail as often as it is invoked.  The navigator is new, or earlier runs  *)
(* that ended on a failed first step have left their count of consecutive  *)
(* errors in it.                                                           *)
(***************************************************************************)
InitNavigatorInUse ==
    /\ \E maxChapters \in 1..MaxChapters, errors \in 0..MaxConsecutiveErrors :
         navigator = [NewChapterNavigator(maxChapters) EXCEPT
                         !.consecutiveErrors = errors]
    /\ sequence = NoSequence

\* the one call of processChapterSequence
StartOneSequence == sequence.pc = "idle" /\ StartSequence

\* the step function fulfils: withRetry returns its result
StepReturnsUncapped ==
    /\ sequence.pc = "call"
    /\ \E result \in StepResults(sequence.currentUrl) :
         LET st == ChapterArrives(navigator, sequence, result)
         IN  /\ navigator' = st.nav
             /\ sequence' = st.seq
    /\ UNCHANGED <<semVars, cbVars, retryVars, batchVars, passVars, cacheVars>>

\* the step function throws: withRetry sleeps before the next attempt, or
\* raises its ProcessingError
StepThrowsUncapped ==
    /\ sequence.pc = "call"
    /\ \E error \in StepErrors :
         LET r == [attempt |-> sequence.attempt, maxRetries |-> StepMaxRetries,
                   operation |-> "processChapter"]
         IN  IF ShouldRetry(r, error)
             THEN /\ sequence' = [sequence EXCEPT !.pc = "retrySleep"]
                  /\ UNCHANGED navigator
             ELSE LET st == ChapterFails(navigator, sequence, RetryFailure(r, error))
                  IN  /\ navigator' = st.nav
                      /\ sequence' = st.seq
    /\ UNCHANGED <<semVars, cbVars, retryVars, batchVars, passVars, cacheVars>>


(***************************************************************************)
(* LRUCache and CacheManager.cleanupExpired (cache-manager.js).            *)
(* A string is the sequence of its characters, so that a key is what the   *)
(* template string of _generateKey makes of its parts.  A Map is the       *)
(* sequence of its entries in insertion order, which is the order its      *)
(* iterators follow.  Time is counted in units of one TTL step; Date.now() *)
(* never goes back.  The payload of the k-th call on the cache is k.  The  *)
(* counters _hits and _misses start undefined in the source and are read   *)
(* through || 0 and &&, for which undefined and 0 are alike: they start    *)
(* at 0 here.  The hit rate is kept as an exact fraction.                  *)
(* Not modelled: getStats' expired count and memory estimate, the          *)
(* interval of the sweep timer (the sweep may run at any time).            *)
(***************************************************************************)
MaxCacheSize == 2
MaxCacheCalls == 4
MaxClock == 3
TtlMs == 1

\* the arguments (provider, operation, ...params) of the calls
CacheArguments ==
    { [provider |-> <<"a", ":", "b">>, operation |-> <<"c">>, params |-> <<>>],
      [provider |-> <<"a">>, operation |-> <<"b", ":", "c">>, params |-> <<>>],
      [provider |-> <<"a">>, operation |-> <<"c">>, params |-> <<>>],
      [provider |-> <<"b">>, operation |-> <<"c">>, params |-> <<"x">>] }
NoArguments == [provider |-> <<>>, operation |-> <<>>, params |-> <<>>]
Providers == {<<"a">>, <<"b">>}

\* JSON.stringify(params) for an array of strings
RECURSIVE JsonItems(_)
JsonItems(params) ==
    IF params = <<>> THEN <<>>
    ELSE <<"\"", Head(params), "\"">>
             \o (IF Len(params) > 1 THEN <<",">> ELSE <<>>)
             \o JsonItems(Tail(params))
JsonStringify(params) == <<"[">> \o JsonItems(params) \o <<"]">>

\* _generateKey: `${provider}:${operation}:${JSON.stringify(params)}`
GenerateKey(provider, operation, params) ==
    provider \o <<":">> \o operation \o <<":">> \o JsonStringify(params)
KeyOf(args) == GenerateKey(args.provider, args.operation, args.params)

\* key.startsWith(prefix)
StartsWith(key, prefix) ==
    Len(key) >= Len(prefix) /\ SubSeq(key, 1, Len(prefix)) = prefix

\* Map: has, get, set (an existing key keeps its place), delete, keys
MapKeys(m) == {m[i].key : i \in 1..Len(m)}
MapHas(m, key) == key \in MapKeys(m)
MapGet(m, key) == m[CHOOSE i \in 1..Len(m) : m[i].key = key].value
MapSet(m, key, value) ==
    IF MapHas(m, key)
    THEN [i \in 1..Len(m) |-> IF m[i].key = key
                              THEN [key |-> key, value |-> value] ELSE m[i]]
    ELSE Append(m, [key |-> key, value |-> value])
MapDelete(m, key) ==
    LET keep == {i \in 1..Len(m) : m[i].key # key}
        Place(k) == CHOOSE i \in keep : Cardinality({j \in keep : j <= i}) = k
    IN  [k \in 1..Cardinality(keep) |-> m[Place(k)]]
RECURSIVE MapDeleteAll(_, _)
MapDeleteAll(m, keys) ==
    IF keys = {} THEN m
    ELSE LET key == CHOOSE k \in keys : TRUE
         IN  MapDeleteAll(MapDelete(m, key), keys \ {key})

\* new LRUCache(maxSize, ttlMs)
NewLRUCache(maxSize, ttlMs) ==
    [maxSize |-> maxSize, ttlMs |-> ttlMs, cache |-> <<>>, accessTime |-> <<>>,
     hits |-> 0, misses |-> 0]

\* _isExpired(timestamp), read at time t
IsExpired(c, timestamp, t) == t - timestamp > c.ttlMs

\* the loop of _evictOldest: the first key of the access map whose time is
\* below the times of all keys before it and not above any time after it
OldestKey(accessTime) ==
    LET i == CHOOSE i \in 1..Len(accessTime) :
                 /\ \A j \in 1..(i - 1) : accessTime[j].value > accessTime[i].value
                 /\ \A j \in (i + 1)..Len(accessTime) :
                        accessTime[j].value >= accessTime[i].value
    IN  accessTime[i].key

\* _evictOldest()
EvictOldest(c) ==
    IF Len(c.cache) < c.maxSize THEN c
    ELSE IF Len(c.accessTime) = 0 THEN c
    ELSE LET oldestKey == OldestKey(c.accessTime)
         IN  [c EXCEPT !.cache = MapDelete(@, oldestKey),
                       !.accessTime = MapDelete(@, oldestKey)]

\* get(provider, operation, ...params) at time t: the cache after the call
\* and the value returned
LruGet(c, key, t) ==
    IF ~MapHas(c.cache, key)
    THEN [cache |-> c, result |-> Null]
    ELSE IF IsExpired(c, MapGet(c.cache, key).timestamp, t)
    THEN [cache |-> [c EXCEPT !.cache = MapDelete(@, key),
                              !.accessTime = MapDelete(@, key)],
          result |-> Null]
    ELSE [cache |-> [c EXCEPT !.accessTime = MapSet(@, key, t)],
          result |-> MapGet(c.cache, key).data]

\* set(provider, operation, data, ...params) at time t
LruSet(c, key, data, t) ==
    LET c1 == EvictOldest(c)
    IN  [c1 EXCEPT !.cache = MapSet(@, key, [data |-> data, timestamp |-> t]),
                   !.accessTime = MapSet(@, key, t)]

\* getWithStats(provider, operation, ...params) at time t
GetWithStats(c, key, t) ==
    LET got == LruGet(c, key, t)
    IN  [cache |-> IF got.result # Null
                   THEN [got.cache EXCEPT !.hits = @ + 1]
                   ELSE [got.cache EXCEPT !.misses = @ + 1],
         result |-> got.result]

\* _calculateHitRate(): hits && misses ? hits / (hits + misses) * 100 : 0
CalculateHitRate(c) ==
    IF c.hits # 0 /\ c.misses # 0
    THEN [num |-> c.hits * 100, den |-> c.hits + c.misses]
    ELSE [num |-> 0, den |-> 1]

\* clearProvider(provider)
ClearProvider(c, provider) ==
    LET keysToDelete == {key \in MapKeys(c.cache) :
                            StartsWith(key, provider \o <<":">>)}
    IN  [c EXCEPT !.cache = MapDeleteAll(@, keysToDelete),
                  !.accessTime = MapDeleteAll(@, keysToDelete)]

\* clear()
Clear(c) == [c EXCEPT !.cache = <<>>, !.accessTime = <<>>]

\* mutant: a sweep that leaves the last-access times of the removed entries
CleanupExpiredValuesOnly(c, t) ==
    LET expiredKeys == {c.cache[i].key : i \in
                          {j \in 1..Len(c.cache) :
                              IsExpired(c, c.cache[j].value.timestamp, t)}}
    IN  [c EXCEPT !.cache = MapDeleteAll(@, expiredKeys)]

\* CacheManager.cleanupExpired(), for one of its caches, at time t
CleanupExpired(c, t) ==
    LET expiredKeys == {c.cache[i].key : i \in
                          {j \in 1..Len(c.cache) :
                              IsExpired(c, c.cache[j].value.timestamp, t)}}
    IN  [c EXCEPT !.cache = MapDeleteAll(@, expiredKeys),
                  !.accessTime = MapDeleteAll(@, expiredKeys)]

\* the record of a call: its number, the method, its arguments, the value
\* returned, the keys it removed from the value map before any insert;
\* lastSet: for each argument triple, payload and time of its most recent
\* set whose key has not been removed since; lastAccess: for each key of the
\* value map, the number of the last call that stored or returned its entry
\* (removedAccess: the same for the keys the call removed)
NoCall ==
    [n |-> 0, op |-> "none", args |-> NoArguments, result |-> Null,
     removed |-> {}, removedAccess |-> {}, lastSet |-> <<>>,
     lastAccess |-> <<>>]

Standing(lastSet, c) ==
    SelectSeq(lastSet, LAMBDA e : MapHas(c.cache, KeyOf(e.key)))

Called(op, args, result, before, after) ==
    [n |-> cacheCall.n + 1, op |-> op, args |-> args, result |-> result,
     removed |-> MapKeys(before.cache) \ MapKeys(after.cache),
     removedAccess |-> {MapGet(cacheCall.lastAccess, key) :
                          key \in MapKeys(before.cache) \ MapKeys(after.cache)},
     lastSet |-> Standing(cacheCall.lastSet, after),
     lastAccess |-> LET touched == (op = "set" \/ result # Null)
                        kept == SelectSeq(cacheCall.lastAccess,
                                    LAMBDA e : /\ MapHas(after.cache, e.key)
                                               /\ touched => e.key # KeyOf(args))
                    IN  IF touched
                        THEN Append(kept, [key |-> KeyOf(args),
                                           value |-> cacheCall.n + 1])
                        ELSE kept]

InitCache ==
    /\ \E maxSize \in 0..MaxCacheSize : lruCache = NewLRUCache(maxSize, TtlMs)
    /\ clock = 0
    /\ cacheCall = NoCall

\* time passes
CacheTick ==
    /\ clock < MaxClock
    /\ clock' = clock + 1
    /\ UNCHANGED <<lruCache, cacheCall>>
    /\ UNCHANGED <<semVars, cbVars, retryVars, batchVars, passVars, navVars>>

CacheSet ==
    /\ cacheCall.n < MaxCacheCalls
    /\ \E args \in CacheArguments :
         LET data == cacheCall.n + 1
             evicted == EvictOldest(lruCache)
             call == Called("set", args, Null, lruCache, evicted)
         IN  /\ lruCache' = LruSet(lruCache, KeyOf(args), data, clock)
             /\ cacheCall' = [call EXCEPT !.lastSet =
                                 MapSet(@, args, [data |-> data, at |-> clock])]
    /\ UNCHANGED clock
    /\ UNCHANGED <<semVars, cbVars, retryVars, batchVars, passVars, navVars>>

CacheGet ==
    /\ cacheCall.n < MaxCacheCalls
    /\ \E args \in CacheArguments :
         LET got == LruGet(lruCache, KeyOf(args), clock)
         IN  /\ lruCache' = got.cache
             /\ cacheCall' = Called("get", args, got.result, lruCache, got.cache)
    /\ UNCHANGED clock
    /\ UNCHANGED <<semVars, cbVars, retryVars, batchVars, passVars, navVars>>

CacheGetWithStats ==
    /\ cacheCall.n < MaxCacheCalls
    /\ \E args \in CacheArguments :
         LET got == GetWithStats(lruCache, KeyOf(args), clock)
         IN  /\ lruCache' = got.cache
             /\ cacheCall' = Called("getWithStats", args, got.result,
                                    lruCache, got.cache)
    /\ UNCHANGED clock
    /\ UNCHANGED <<semVars, cbVars, retryVars, batchVars, passVars, navVars>>

CacheClearProvider ==
    /\ cacheCall.n < MaxCacheCalls
    /\ \E provider \in Providers :
         LET after == ClearProvider(lruCache, provider)
         IN  /\ lruCache' = after
             /\ cacheCall' = Called("clearProvider",
                                    [NoArguments EXCEPT !.provider = provider],
                                    Null, lruCache, after)
    /\ UNCHANGED clock
    /\ UNCHANGED <<semVars, cbVars, retryVars, batchVars, passVars, navVars>>

CacheClear ==
    /\ cacheCall.n < MaxCacheCalls
    /\ lruCache' = Clear(lruCache)
    /\ cacheCall' = Called("clear", NoArguments, Null, lruCache, Clear(lruCache))
    /\ UNCHANGED clock
    /\ UNCHANGED <<semVars, cbVars, retryVars, batchVars, passVars, navVars>>

\* the sweep timer fires
CacheCleanupExpired ==
    /\ cacheCall.n < MaxCacheCalls
    /\ lruCache' = CleanupExpired(lruCache, clock)
    /\ cacheCall' = Called("cleanupExpired", NoArguments, Null, lruCache,
                           CleanupExpired(lruCache, clock))
    /\ UNCHANGED clock
    /\ UNCHANGED <<semVars, cbVars, retryVars, batchVars, passVars, navVars>>

(***************************************************************************)
(* Specifications.                                                         *)
(***************************************************************************)
SemaphoreParked == semaphore = NewSemaphore(1) /\ held = {}
MetricsParked == metrics = NewProviderMetrics /\ now = 0
RetryParked == retry = NewRetry(1, 100, [num |-> 2, den |-> 1], "")
BatchParked ==
    /\ batchProcessor = NewBatchProcessor(1, 1, FALSE)
    /\ run = NewRun(0, TRUE)
    /\ tasks = NoTasks
    /\ processorLog = <<>>

PassesParked == passes = NewPasses(0, 0, 1, TRUE)
NavigatorParked == navigator = NewChapterNavigator(1) /\ sequence = NoSequence
CacheParked ==
    lruCache = NewLRUCache(1, TtlMs) /\ clock = 0 /\ cacheCall = NoCall
RestParked == PassesParked /\ NavigatorParked /\ CacheParked

\* a bare Semaphore under acquire and release calls
InitSpecSemaphore ==
    InitSemaphore /\ MetricsParked /\ RetryParked /\ BatchParked /\ RestParked

NextSemaphore == Acquire \/ Release

SpecSemaphore == InitSpecSemaphore /\ [][NextSemaphore]_vars

\* a bare Semaphore under acquire, release and resize calls
NextSemaphoreResize == Acquire \/ Release \/ Resize

SpecSemaphoreResize == InitSpecSemaphore /\ [][NextSemaphoreResize]_vars

\* the same callers, each of which releases the permit it was granted
SpecSemaphoreFair ==
    /\ InitSpecSemaphore
    /\ [][NextSemaphoreResize]_vars
    /\ \A id \in 1..MaxAcquisitions : WF_vars(ReleaseBy(id))

\* one provider's metrics under any sequence of records
InitSpecCircuitBreaker ==
    InitMetrics /\ SemaphoreParked /\ RetryParked /\ BatchParked /\ RestParked

NextCircuitBreaker == Tick \/ RecordSuccess \/ RecordFailure \/ ResetMetrics

SpecCircuitBreaker == InitSpecCircuitBreaker /\ [][NextCircuitBreaker]_vars

\* one provider's metrics under records with their flags, retries and resets
NextMetricsCounters ==
    \/ Tick \/ RecordSuccess \/ RecordFailureFlagged \/ RecordRetry
    \/ ResetMetrics

SpecMetricsCounters == InitSpecCircuitBreaker /\ [][NextMetricsCounters]_vars

\* one provider's metrics late in a long run of records
InitSpecLongRun ==
    InitLongRun /\ SemaphoreParked /\ RetryParked /\ BatchParked /\ RestParked

NextLongRun == LongRunRecordSuccess \/ LongRunRecordFailure

SpecLongRun == InitSpecLongRun /\ [][NextLongRun]_vars

\* one provider's metrics behind a caller that consults isAvailable()
NextGuardedCaller == Tick \/ GuardedRecordSuccess \/ GuardedRecordFailure

SpecGuardedCaller == InitSpecCircuitBreaker /\ [][NextGuardedCaller]_vars

\* one call of withRetry
InitSpecRetry ==
    InitRetry /\ SemaphoreParked /\ MetricsParked /\ BatchParked /\ RestParked

NextRetry == RetryAttemptSucceeds \/ RetryAttemptFails \/ RetryWake

SpecRetry == InitSpecRetry /\ [][NextRetry]_vars

\* one call of processBatch on a fresh BatchProcessor
InitSpecBatch == InitBatch /\ MetricsParked /\ RetryParked /\ RestParked

NextBatchRun ==
    \/ ProcessBatchStart \/ InvokeProcessor \/ ProcessorSettles
    \/ TaskReleases \/ JoinBatch \/ NextBatch

SpecBatch == InitSpecBatch /\ [][NextBatchRun]_vars

\* a BatchProcessor under adaptive checks while its semaphore is in use
InitSpecAdaptive == InitAdaptive /\ MetricsParked /\ RetryParked /\ RestParked

NextAdaptive == Acquire \/ Release \/ AdaptiveCheck

SpecAdaptive == InitSpecAdaptive /\ [][NextAdaptive]_vars

\* one call of processWithRetry
InitSpecProcessWithRetry ==
    /\ InitPasses /\ NavigatorParked /\ CacheParked
    /\ SemaphoreParked /\ MetricsParked /\ RetryParked /\ BatchParked

NextProcessWithRetry == ProcessPass \/ PassWake

SpecProcessWithRetry == InitSpecProcessWithRetry /\ [][NextProcessWithRetry]_vars

\* the calls of processChapterSequence on one ChapterNavigator, one after the
\* other
InitSpecNavigator ==
    /\ InitNavigator /\ PassesParked /\ CacheParked
    /\ SemaphoreParked /\ MetricsParked /\ RetryParked /\ BatchParked

NextNavigator ==
    \/ StartSequence \/ StepReturns \/ StepThrows
    \/ StepRetryWake \/ StepDelayElapsed \/ ErrorDelayElapsed

SpecNavigator == InitSpecNavigator /\ [][NextNavigator]_vars

\* one run of processChapterSequence whose step function may fail at every
\* invocation, on a navigator as earlier runs leave it; every invocation
\* settles and every timer fires
InitSpecNavigatorTermination ==
    /\ InitNavigatorInUse /\ PassesParked /\ CacheParked
    /\ SemaphoreParked /\ MetricsParked /\ RetryParked /\ BatchParked

NextNavigatorTermination ==
    \/ StartOneSequence \/ StepReturnsUncapped \/ StepThrowsUncapped
    \/ StepRetryWake \/ StepDelayElapsed \/ ErrorDelayElapsed

SpecNavigatorTermination ==
    /\ InitSpecNavigatorTermination
    /\ [][NextNavigatorTermination]_vars
    /\ WF_vars(StepReturnsUncapped \/ StepThrowsUncapped)
    /\ WF_vars(StepRetryWake)
    /\ WF_vars(StepDelayElapsed)
    /\ WF_vars(ErrorDelayElapsed)

\* one cache namespace under set, get, the clearing calls and the sweep
InitSpecCache ==
    /\ InitCache /\ PassesParked /\ NavigatorParked
    /\ SemaphoreParked /\ MetricsParked /\ RetryParked /\ BatchParked

NextCache ==
    \/ CacheTick \/ CacheSet \/ CacheGet
    \/ CacheClearProvider \/ CacheClear \/ CacheCleanupExpired

SpecCache == InitSpecCache /\ [][NextCache]_vars

\* one cache namespace under set and the tracked lookup
NextCacheStats == CacheTick \/ CacheSet \/ CacheGetWithStats

SpecCacheStats == InitSpecCache /\ [][NextCacheStats]_vars

(***************************************************************************)
(* Properties.                                                             *)
(***************************************************************************)

\* C1: under any sequence of acquire calls and of release calls made by
\* holders of a permit, running never exceeds the capacity.
C1_RunningWithinCapacity == semaphore.running <= semaphore.capacity

\* C1 witness: the semaphore is full, with a waiter queued behind the holders
\* and a permit already handed over by a release.
C1_Witness ==
    /\ semaphore.running = semaphore.capacity
    /\ Len(semaphore.queue) > 0
    /\ semaphore.totalReleases > 0
    /\ semaphore.capacity > 1

\* a step that records a success / a failure
SuccessRecorded == metrics'.successful = metrics.successful + 1
FailureRecorded == metrics'.failed = metrics.failed + 1

\* the cooldown next-retry time minus open timestamp of a breaker
Cooldown(cb) == cb.nextRetryAt - cb.openedAt

\* C4: a closed breaker counts the consecutive failures (fewer than 5), a
\* success resets the count, the breaker opens exactly on the step that records
\* the 5th consecutive failure, and then next-retry = open timestamp + 60 s.
C4_OpensOnFifthFailure ==
    [][metrics.circuitBreaker.state = "closed" =>
         /\ metrics.circuitBreaker.failures = metrics.consecutiveFailures
         /\ metrics.circuitBreaker.failures < 5
         /\ metrics'.circuitBreaker.state \in {"closed", "open"}
         /\ (metrics'.circuitBreaker.state = "open") <=>
                (FailureRecorded /\ metrics'.consecutiveFailures = 5)
         /\ (SuccessRecorded => metrics'.circuitBreaker.failures = 0)
         /\ (metrics'.circuitBreaker.state = "open" =>
                /\ metrics'.circuitBreaker.openedAt = now
                /\ metrics'.circuitBreaker.nextRetryAt =
                       metrics'.circuitBreaker.openedAt + 60000)]_vars

\* C4 witness: the breaker has just opened on a run of exactly 5 failures, after
\* an earlier, shorter run of failures that a success interrupted.
C4_Witness ==
    /\ metrics.circuitBreaker.state = "open"
    /\ metrics.circuitBreaker.failures = 5
    /\ metrics.consecutiveFailures = 5
    /\ metrics.maxConsecutiveFailures = 5
    /\ metrics.failed >= 7
    /\ metrics.successful >= 1

\* C5 (as claimed): once the time has reached the next-retry time of a breaker
\* that opened, the provider is available again.
C5_AvailableAfterCooldown ==
    (metrics.circuitBreaker.nextRetryAt # Null
        /\ now >= metrics.circuitBreaker.nextRetryAt) => IsAvailable(metrics)

\* For the caller that dispatches only while isAvailable(): an open breaker
\* stays open, whatever the time.
GuardedCallerStaysOpen ==
    [][metrics.circuitBreaker.state = "open" =>
         metrics'.circuitBreaker.state = "open"]_vars

\* C6 (as claimed): a failure while half-open reopens the breaker with a
\* cooldown strictly longer than that of the preceding open period.
C6_ReopenStrictlyLonger ==
    [][(metrics.circuitBreaker.state = "half-open" /\ FailureRecorded) =>
         /\ metrics'.circuitBreaker.state = "open"
         /\ Cooldown(metrics'.circuitBreaker) > Cooldown(metrics.circuitBreaker)]_vars

\* C6 (amended): a failure while half-open reopens the breaker with a cooldown
\* of at most 5 minutes that is never shorter than that of the preceding open
\* period, and strictly longer when the preceding one was below the cap.
C6_ReopenNotShorter ==
    [][(metrics.circuitBreaker.state = "half-open" /\ FailureRecorded) =>
         /\ metrics'.circuitBreaker.state = "open"
         /\ metrics'.circuitBreaker.openedAt = now
         /\ Cooldown(metrics'.circuitBreaker) <= 300000
         /\ Cooldown(metrics'.circuitBreaker) >= Cooldown(metrics.circuitBreaker)
         /\ (Cooldown(metrics.circuitBreaker) < 300000 =>
                Cooldown(metrics'.circuitBreaker) >
                    Cooldown(metrics.circuitBreaker))]_vars

\* C6 witness: the breaker is open for the third time (reopened twice).
C6_Witness ==
    /\ metrics.circuitBreaker.state = "open"
    /\ metrics.circuitBreaker.failures = 7
    /\ Cooldown(metrics.circuitBreaker) = 300000

\* C7: a success recorded while half-open closes the breaker, resets its
\* failure count, clears both timestamps and leaves the provider available.
C7_ProbeSuccessCloses ==
    [][(metrics.circuitBreaker.state = "half-open" /\ SuccessRecorded) =>
         /\ metrics'.circuitBreaker.state = "closed"
         /\ metrics'.circuitBreaker.failures = 0
         /\ metrics'.circuitBreaker.openedAt = Null
         /\ metrics'.circuitBreaker.nextRetryAt = Null
         /\ IsAvailable(metrics')]_vars

\* C7 witness: a closed breaker that has been open before (5 failures in a row
\* were recorded) and has counted a failure again since.
C7_Witness ==
    /\ metrics.circuitBreaker.state = "closed"
    /\ metrics.maxConsecutiveFailures >= 5
    /\ metrics.circuitBreaker.failures = 1
    /\ metrics.circuitBreaker.nextRetryAt = Null

\* baseDelay * backoffMultiplier^(i - 1), as the rational num / den
ExpectedDelay(baseDelay, multiplier, i) ==
    [num |-> baseDelay * Pow(multiplier.num, i - 1), den |-> Pow(multiplier.den, i - 1)]

\* equality of two rationals
SameDelay(a, b) == a.num * b.den = b.num * a.den

\* C8: when the operation succeeds after k recoverable failures, it has been
\* invoked k + 1 times, there have been k sleeps, the i-th of
\* baseDelay * backoffMultiplier^(i-1), and the success value is returned;
\* withRetry(op, 3, 100, 2.0) with two failures sleeps 100 ms, then 200 ms.
C8_RetryThenSuccess ==
    retry.pc = "returned" =>
        LET k == Len(retry.thrown)
        IN  /\ k < retry.maxRetries
            /\ \A i \in 1..k : Recoverable(retry.thrown[i])
            /\ retry.calls = k + 1
            /\ Len(retry.sleeps) = k
            /\ \A i \in 1..k :
                 SameDelay(retry.sleeps[i],
                           ExpectedDelay(retry.baseDelay, retry.backoffMultiplier, i))
            /\ retry.result = SuccessValue
            /\ (k = 2 /\ retry.maxRetries = 3 /\ retry.baseDelay = 100
                    /\ retry.backoffMultiplier = [num |-> 2, den |-> 1]
                  => retry.sleeps = << [num |-> 100, den |-> 1],
                                       [num |-> 200, den |-> 1] >>)

\* C8 witness: a success on the third attempt of withRetry(op, 3, 100, 2.0).
C8_Witness ==
    /\ retry.pc = "returned"
    /\ Len(retry.thrown) = 2
    /\ retry.maxRetries = 3 /\ retry.baseDelay = 100
    /\ retry.backoffMultiplier = [num |-> 2, den |-> 1]

\* C9: when the first error the operation throws is not recoverable, the
\* operation has been invoked once, there has been no sleep, and withRetry has
\* rejected with a ProcessingError, whatever maxRetries is.
C9_NonRecoverableAborts ==
    (Len(retry.thrown) >= 1 /\ ~Recoverable(retry.thrown[1])) =>
        /\ retry.pc = "rejected"
        /\ retry.calls = 1
        /\ retry.sleeps = <<>>
        /\ retry.result.class = "ProcessingError"

\* C9 witness: a non-operational AppError thrown with attempts remaining.
C9_Witness ==
    /\ retry.maxRetries = 3
    /\ Len(retry.thrown) = 1
    /\ retry.thrown[1].class = "AppError"
    /\ retry.pc = "rejected"

\* every attempt of the call has failed with a recoverable error
AllAttemptsFailedRecoverably ==
    /\ retry.pc = "rejected"
    /\ \A i \in 1..Len(retry.thrown) : Recoverable(retry.thrown[i])

\* C10: when every attempt fails with a recoverable error, the operation has
\* been invoked maxRetries times, with maxRetries - 1 sleeps, and withRetry
\* rejects with one ProcessingError that carries the attempt count, the last
\* error's message and the context's operation name ('unknown' when absent).
C10_RetriesExhausted ==
    AllAttemptsFailedRecoverably =>
        /\ retry.calls = retry.maxRetries
        /\ Len(retry.thrown) = retry.maxRetries
        /\ Len(retry.sleeps) = retry.maxRetries - 1
        /\ retry.result.class = "ProcessingError"
        /\ retry.result.attempts = retry.maxRetries
        /\ retry.result.cause = retry.thrown[retry.maxRetries].message
        /\ retry.result.step =
               (IF retry.operation = "" THEN "unknown" ELSE retry.operation)

\* C10 witness: three recoverable failures of different kinds, no operation
\* name in the context.
C10_Witness ==
    /\ AllAttemptsFailedRecoverably
    /\ retry.maxRetries = 3
    /\ retry.operation = ""
    /\ retry.thrown[1].code = "ENOTFOUND"
    /\ retry.thrown[3].class = "NetworkError"

\* the entry processBatch owes item i: the value the processor fulfilled with,
\* or an error record of the item
ExpectedEntry(i) ==
    CASE processorLog[i].outcome = "value"      -> Value(i)
      [] processorLog[i].outcome = "undefined"  -> Undefined
      [] processorLog[i].outcome = "throws"     -> ErrorRecord(i, ProcessorMessage)
      [] processorLog[i].outcome = "throwsNull" -> ErrorRecord(i, TypeErrorMessage)
      [] OTHER -> NoEntry

\* processBatch has returned one entry per item, in input order, after one
\* invocation of the processor per item
OneEntryPerItem ==
    /\ Len(run.results) = run.n
    /\ \A i \in 1..run.n :
         /\ processorLog[i].calls = 1
         /\ run.results[i] = ExpectedEntry(i)

\* C2 (as claimed): processBatch(items, processor) does not reject, and
\* returns one entry per item in input order: the processor's value where it
\* fulfilled, an error record of the item otherwise, the processor having
\* been invoked once per item.
C2_OneEntryPerItem ==
    /\ (run.pc = "rejected" => ~run.processorIsFunction)
    /\ (run.pc = "returned" => OneEntryPerItem)

\* What holds of the code: the same, for a processor that never fulfils with
\* undefined or null.
C2_DefinedValues ==
    (\A i \in 1..run.n : processorLog[i].outcome # "undefined") =>
        C2_OneEntryPerItem

\* 5 items in batches of 2, the processor failing on the 4th item alone: five
\* entries, of which exactly the 4th is an error record.
C2_DefinedValuesWitness ==
    /\ run.pc = "returned"
    /\ run.n = 5 /\ batchProcessor.batchSize = 2 /\ batchProcessor.maxConcurrency = 2
    /\ {i \in 1..5 : run.results[i].kind = "error"} = {4}
    /\ run.results[4] = ErrorRecord(4, ProcessorMessage)

\* the tasks whose processor is in flight
InFlight == {i \in DOMAIN tasks : tasks[i].pc = "running"}

\* the tasks that hold a permit
Permitted == {i \in DOMAIN tasks : tasks[i].pc \in {"granted", "running", "finishing"}}

\* C3: during processBatch the processor invocations in flight never outnumber
\* the semaphore's capacity, which is maxConcurrency; the tasks beyond it wait
\* in the semaphore's queue.
C3_InFlightWithinCapacity ==
    /\ semaphore.capacity = batchProcessor.maxConcurrency
    /\ Cardinality(InFlight) <= semaphore.capacity
    /\ Cardinality(Permitted) = semaphore.running
    /\ semaphore.running <= semaphore.capacity
    /\ {i \in DOMAIN tasks : tasks[i].pc = "waiting"} =
           {semaphore.queue[k] : k \in 1..Len(semaphore.queue)}

\* C3 witness: a batch larger than maxConcurrency, in a later batch of the run:
\* as many processors in flight as the capacity, the rest of the batch queued.
C3_Witness ==
    /\ batchProcessor.batchSize > batchProcessor.maxConcurrency
    /\ run.batchIndex > 0
    /\ Cardinality(InFlight) = semaphore.capacity
    /\ Len(semaphore.queue) > 0

\* C11 (as claimed): validation failures are never retried: an operation that
\* throws a ValidationError is invoked exactly once by withRetry, with no
\* sleep, and processWithRetry neither sleeps nor runs processBatch again once
\* processBatch has rejected because the processor is not a function.
C11_ValidationNeverRetried ==
    /\ (Len(retry.thrown) >= 1 /\ retry.thrown[1].class = "ValidationError")
          => (retry.calls = 1 /\ retry.sleeps = <<>>)
    /\ (passes.rejections >= 1 /\ ~passes.processorIsFunction)
          => (passes.runs = 1 /\ passes.sleeps = <<>>)

\* What the code does with a processor that is not a function: every pass
\* rejects, and processWithRetry runs all its maxRetries + 1 passes, sleeping
\* 1000 * 2^k ms before pass k + 1, before it rejects.
InvalidProcessorRetried ==
    (passes.pc = "rejected" /\ ~passes.processorIsFunction) =>
        /\ passes.runs = passes.maxRetries + 1
        /\ Len(passes.sleeps) = passes.maxRetries
        /\ \A k \in 1..Len(passes.sleeps) : passes.sleeps[k] = 1000 * Pow(2, k)

\* the report of a run: totalChapters and lastUrl
TotalChapters == sequence.chapterCount
LastUrl == sequence.currentUrl

\* every invocation of the step function in the run has returned a titled
\* chapter
EveryStepSucceeded == sequence.calls = Len(sequence.results)

\* C12: a run in which every step returned a titled result has invoked the
\* step once per identifier of the chain, in chain order from the start
\* identifier, and once it returns, the report has the results in that order,
\* totalChapters = their number and, when the last result has no next link,
\* lastUrl = the last identifier of the chain; the run stops before the end of
\* the chain only at the maximum item count or at a processed identifier.
C12_ChainInOrder ==
    (sequence.pc = "returned" /\ EveryStepSucceeded) =>
        LET k == Len(sequence.results)
        IN  /\ TotalChapters = k
            /\ \A i \in 1..k :
                 /\ sequence.results[i].titled
                 /\ sequence.results[i].url =
                        (IF i = 1 THEN sequence.startUrl
                         ELSE sequence.results[i - 1].nextChapterUrl)
            /\ k = 0 => sequence.startUrl \in navigator.processedChapters
            /\ k > 0 =>
                 IF sequence.results[k].nextChapterUrl = NullUrl
                 THEN LastUrl = sequence.results[k].url
                 ELSE /\ LastUrl = sequence.results[k].nextChapterUrl
                      /\ \/ k = navigator.maxChapters
                         \/ LastUrl \in navigator.processedChapters

\* C12 witness: the chain 1 -> 2 -> 3 -> null from a fresh navigator: three
\* invocations, three results, lastUrl = chapter 3.
C12_Witness ==
    /\ sequence.pc = "returned" /\ sequence.run = 1
    /\ sequence.startUrl = SyosetuUrl(1)
    /\ sequence.calls = 3
    /\ sequence.results = << Chapter(SyosetuUrl(1), TRUE, SyosetuUrl(2)),
                             Chapter(SyosetuUrl(2), TRUE, SyosetuUrl(3)),
                             Chapter(SyosetuUrl(3), TRUE, NullUrl) >>
    /\ TotalChapters = 3 /\ LastUrl = SyosetuUrl(3)

\* C13: the step function is never in flight for a processed identifier and
\* no identifier appears twice in the results; when the identifier the loop
\* comes to, after the inter-step delay or at the start of a run, is already
\* processed, the run returns without an error, without an invocation and
\* without a new result.
C13_ProcessedNeverRevisited ==
    [][/\ (sequence'.pc \in {"call", "retrySleep"} =>
              sequence'.currentUrl \notin navigator'.processedChapters)
       /\ \A i, j \in 1..Len(sequence'.results) :
              i # j => sequence'.results[i].url # sequence'.results[j].url
       /\ ((sequence.pc = "delay"
               /\ sequence.nextUrl \in navigator.processedChapters) =>
              /\ sequence'.pc = "returned" /\ sequence'.error = NoError
              /\ sequence'.calls = sequence.calls
              /\ sequence'.results = sequence.results
              /\ sequence'.chapterCount = Len(sequence.results))
       /\ ((sequence'.run = sequence.run + 1
               /\ sequence'.startUrl \in navigator.processedChapters) =>
              /\ sequence'.calls = 0 /\ sequence'.results = <<>>
              /\ \/ sequence'.pc = "returned" /\ sequence'.error = NoError
                 \/ sequence'.error.class = "ValidationError")]_vars

\* C13 witness: the cycle 1 -> 2 -> 1 has been followed: the run has returned
\* with totalChapters = 2, after two invocations.
C13_Witness ==
    /\ sequence.pc = "returned" /\ sequence.calls = 2
    /\ sequence.results = << Chapter(SyosetuUrl(1), TRUE, SyosetuUrl(2)),
                             Chapter(SyosetuUrl(2), TRUE, SyosetuUrl(1)) >>
    /\ TotalChapters = 2 /\ LastUrl = SyosetuUrl(1)
    /\ navigator.maxChapters = 3

\* C14 (as claimed): once the step function has returned a missing result or
\* a result without a title, the run has rejected with the ProcessingError
\* 'Invalid chapter data received from processor'.
C14_InvalidResultRejects ==
    sequence.chapterError = InvalidChapterData =>
        /\ sequence.pc = "rejected"
        /\ sequence.error.class = "ProcessingError"

\* What the code does with such a result: it is added neither to the results
\* nor to the processed set, and the step counts as a failed step like any
\* other: the error backoff, then the fallback navigation or a NavigationError.
InvalidResultIsFailedStep ==
    [][(sequence.pc = "call" /\ sequence'.chapterError = InvalidChapterData) =>
          /\ sequence'.pc = "errorDelay"
          /\ sequence'.results = sequence.results
          /\ navigator'.processedChapters = navigator.processedChapters
          /\ navigator'.consecutiveErrors = navigator.consecutiveErrors + 1]_vars

\* no run ever rejects with a ProcessingError
NoProcessingErrorEscapes ==
    sequence.error.class \in {"none", "ValidationError", "NavigationError"}

\* the fallback navigation rule: the next chapter of the same series, for a
\* chapter URL of the site
FallbackFails(url) == url.host # "ncode.syosetu.com"
FallbackOf(url) == [url EXCEPT !.chapter = @ + 1]

\* C15: after the error delay of a failed step (its error no not-found
\* signal), the failed identifier is in neither the results nor the processed
\* set; if the consecutive-error count is below 3 and the fallback rule
\* derives an identifier, the loop goes on with that identifier; otherwise,
\* and only then, the run rejects with a NavigationError that names the
\* current URL and the step.
C15_FallbackOrAbort ==
    [][/\ (sequence.pc = "errorDelay" =>
             LET abort == \/ navigator.consecutiveErrors >= 3
                          \/ FallbackFails(sequence.currentUrl)
             IN  /\ ~SignalsNotFound(sequence.chapterError)
                 /\ sequence'.results = sequence.results
                 /\ sequence.currentUrl \notin navigator'.processedChapters
                 /\ abort =>
                      /\ sequence'.pc = "rejected"
                      /\ sequence'.error.class = "NavigationError"
                      /\ sequence'.error.url = sequence.currentUrl
                      /\ sequence'.error.step =
                            (IF navigator.consecutiveErrors >= 3
                             THEN "processChapter" ELSE "nextChapter")
                 /\ ~abort =>
                      /\ sequence'.currentUrl = FallbackOf(sequence.currentUrl)
                      /\ sequence'.error = NoError
                      /\ sequence'.pc =
                            (IF sequence'.currentUrl \in navigator.processedChapters
                             THEN "returned" ELSE "call"))
       /\ (sequence'.error.class = "NavigationError" /\ sequence.pc # "rejected"
              => sequence.pc = "errorDelay")]_vars

\* C15 witness: three failed steps in a row from chapter 1, the first two
\* followed by the fallback to chapters 2 and 3: the run has aborted at
\* chapter 3 with the counter at 3.
C15_Witness ==
    /\ sequence.pc = "rejected" /\ sequence.run = 1
    /\ sequence.startUrl = SyosetuUrl(1)
    /\ sequence.error.class = "NavigationError"
    /\ sequence.error.url = SyosetuUrl(3)
    /\ sequence.error.step = "processChapter"
    /\ navigator.consecutiveErrors = 3
    /\ sequence.results = <<>>

\* C16: when a step fails with an error whose message signals not-found, the
\* run returns at once without an error: the results and their count are as
\* they were, there is no fallback navigation, and the failing identifier is
\* not in the processed set.
C16_NotFoundEndsChain ==
    [][(sequence.pc = "call" /\ sequence'.chapterError # NoResult
           /\ sequence'.chapterError.cause \in
                  {"Chapter not found (404)", "Not Found"}) =>
          /\ sequence'.pc = "returned" /\ sequence'.error = NoError
          /\ sequence'.results = sequence.results
          /\ sequence'.chapterCount = Len(sequence.results)
          /\ sequence'.currentUrl = sequence.currentUrl
          /\ sequence'.calls = sequence.calls
          /\ navigator'.processedChapters = navigator.processedChapters
          /\ sequence.currentUrl \notin navigator'.processedChapters]_vars

\* C16 witness: after one result, the step for chapter 2 has failed three
\* times, the last time with 'Not Found': the run has returned one result.
C16_Witness ==
    /\ sequence.pc = "returned"
    /\ sequence.chapterError # NoResult
    /\ sequence.chapterError.cause = "Not Found"
    /\ sequence.calls = 4
    /\ Len(sequence.results) = 1 /\ TotalChapters = 1
    /\ LastUrl = SyosetuUrl(2)

\* C17: totalChapters never exceeds the maximum item count, and the step
\* function is not in flight (or about to be retried) once that many results
\* have been collected.
C17_MaxChaptersRespected ==
    /\ TotalChapters <= navigator.maxChapters
    /\ Len(sequence.results) = TotalChapters
    /\ (sequence.pc \in {"call", "retrySleep"} =>
            Len(sequence.results) < navigator.maxChapters)

\* C17 witness: the run has returned at the maximum of 2 results although the
\* last result has a next link to an unprocessed identifier.
C17_Witness ==
    /\ sequence.pc = "returned"
    /\ navigator.maxChapters = 2 /\ TotalChapters = 2
    /\ sequence.results[2].nextChapterUrl # NullUrl
    /\ LastUrl = sequence.results[2].nextChapterUrl
    /\ LastUrl \notin navigator.processedChapters

\* the ids waiting in the queue of a semaphore
QueueIds(s) == {s.queue[k] : k \in 1..Len(s.queue)}

\* C18: the ids of the acquire calls count the calls in their order.  The
\* queue holds its waiters in that order, a waiter leaves it only with a
\* permit, and every waiter granted by a step (a release or a growing resize)
\* called acquire before every waiter still queued after the step.
C18_FifoGrants ==
    [][/\ \A i, j \in 1..Len(semaphore'.queue) :
              i < j => semaphore'.queue[i] < semaphore'.queue[j]
       /\ QueueIds(semaphore) \ QueueIds(semaphore') \subseteq held'
       /\ \A g \in QueueIds(semaphore) \cap held', w \in QueueIds(semaphore') :
              g < w]_vars

\* C18 witness: waiters have been granted, by a release among others, while
\* two later waiters are still queued.
C18_Witness ==
    /\ semaphore.hasWaitTime
    /\ semaphore.totalReleases >= 1
    /\ Len(semaphore.queue) >= 2
    /\ Cardinality(held) >= 2

\* the tasks of the batch under way whose use() call has settled
Settled == {i \in DOMAIN tasks : tasks[i].pc = "settled"}

\* C19: use(task) has released once for every call that has settled, and for
\* no other; the settled call has passed on what its task fulfilled with or
\* threw; a task that has settled but not released yet still holds its permit;
\* and once every use call of a batch has settled, running is back to 0, the
\* value it had before the calls.
C19_UseReleasesOnce ==
    /\ run.pc = "batch" =>
         /\ semaphore.totalReleases =
                run.batchIndex * batchProcessor.batchSize + Cardinality(Settled)
         /\ semaphore.totalAcquisitions =
                semaphore.totalReleases + Cardinality(DOMAIN tasks \ Settled)
         /\ \A i \in Settled :
                tasks[i].out = TaskOutcome(i, processorLog[i].outcome)
         /\ \A i \in DOMAIN tasks : tasks[i].pc = "finishing" => i \in held
         /\ Settled \cap held = {}
         /\ (Settled = DOMAIN tasks =>
                semaphore.running = 0 /\ semaphore.queue = <<>>)
    /\ run.pc # "batch" =>
         /\ semaphore.running = 0
         /\ semaphore.totalReleases = semaphore.totalAcquisitions

\* C19 witness: a batch of three on two permits has settled, one task having
\* thrown and one having fulfilled with a value; running is 0 again.
C19_Witness ==
    /\ run.pc = "batch"
    /\ Cardinality(DOMAIN tasks) = 3 /\ Settled = DOMAIN tasks
    /\ batchProcessor.maxConcurrency = 2
    /\ \E i, j \in Settled :
          tasks[i].out.kind = "rejection" /\ tasks[j].out.kind = "value"
    /\ semaphore.running = 0
    /\ semaphore.totalReleases = 3

\* the number (from 0) of the batch of item i
BatchOf(i) == (i - 1) \div batchProcessor.batchSize

\* C20: an item has acquired the semaphore or had its processor invoked only
\* if every item of the earlier batches has settled; the acquire calls made
\* are those of the batches dispatched so far; and a delay between batches is
\* under way only when a further batch follows.
C20_BatchesInSequence ==
    /\ \A i \in 1..run.n :
         (processorLog[i].calls > 0 \/ i \in DOMAIN tasks) =>
             \A j \in 1..run.n :
                 BatchOf(j) < BatchOf(i) =>
                     /\ processorLog[j].outcome # "none"
                     /\ j \notin DOMAIN tasks
    /\ semaphore.totalAcquisitions =
           (IF run.pc \in {"batch", "delay", "returned"} \/ run.error = "TypeError"
            THEN Cardinality({i \in 1..run.n : BatchOf(i) <= run.batchIndex})
            ELSE 0)
    /\ \A i \in DOMAIN tasks : BatchOf(i) = run.batchIndex
    /\ run.pc = "delay" => \E i \in 1..run.n : BatchOf(i) > run.batchIndex
    /\ (run.pc = "returned" /\ run.n > 0) => BatchOf(run.n) = run.batchIndex

\* C20 witness: the second batch is under way, one of its processors in
\* flight, after a first batch of two in which a processor threw.
C20_Witness ==
    /\ run.pc = "batch" /\ run.batchIndex = 1
    /\ batchProcessor.batchSize = 2
    /\ processorLog[1].outcome = "throws"
    /\ \E i \in DOMAIN tasks : tasks[i].pc = "running"

\* The one-step account of processBatch that processWithRetry's passes use
\* agrees with the run of processBatch step by step: the same settlement, the
\* same error, the same results and the same number of items invoked.
ProcessBatchOutcomeAgrees ==
    run.pc \in {"returned", "rejected"} =>
        LET items == [k \in 1..run.n |-> k]
            outcomes == [k \in 1..run.n |->
                           IF processorLog[k].outcome = "none" THEN "value"
                           ELSE processorLog[k].outcome]
            out == ProcessBatchOutcome(items, outcomes, batchProcessor.batchSize,
                                       run.processorIsFunction)
        IN  /\ out.pc = run.pc
            /\ out.error = run.error
            /\ run.pc = "returned" => out.results = run.results
            /\ out.invoked = Cardinality({k \in 1..run.n : processorLog[k].calls > 0})

\* C21 (as claimed): processWithRetry(items, processor, N) runs at most N + 1
\* passes, sleeps 1000 * 2^k ms before pass k + 1, never passes an item to the
\* processor again once the processor has fulfilled for it, and returns only
\* with a pass free of error records or with the results of pass N + 1.
C21_RetriesFailedItemsOnly ==
    /\ passes.runs <= passes.maxRetries + 1
    /\ \A k \in 1..Len(passes.sleeps) : passes.sleeps[k] = BackoffBaseMs * Pow(2, k)
    /\ passes.retried = {}
    /\ passes.pc = "returned" =>
          \/ Len(ErrorItems(passes.results)) = 0
          \/ passes.runs = passes.maxRetries + 1

\* What the code keeps of it: as long as no pass has rejected, the items of a
\* pass are the items of the error records of the pass before, so that no
\* item is processed again after a success and item i is processed at most
\* once per pass.
ReturnedPassesRetryFailedOnly ==
    passes.rejections = 0 =>
        /\ passes.retried = {}
        /\ \A i \in 1..passes.n : passes.calls[i] <= passes.runs
        /\ \A k \in 1..Len(passes.items) :
              (passes.runs > 0 /\ passes.pc \in {"pass", "sleep"})
                  => passes.items[k] \notin passes.succeeded

\* A rejected pass is run again with the same items: an item the processor
\* had fulfilled for is passed to it a second time.
C21_SucceededItemRetried ==
    /\ passes.retried # {}
    /\ passes.rejections >= 1

\* the step function is invoked in this step of the navigator
StepInvoked ==
    /\ sequence'.pc = "call"
    /\ <<sequence'.run, sequence'.calls>> # <<sequence.run, sequence.calls>>

\* C22: the navigator processes one item at a time: the step function is
\* invoked only while no invocation is in flight, one invocation per step; a
\* retry of the same identifier follows withRetry's sleep, and the step for
\* another identifier follows the inter-step delay or the error delay.
C22_OneStepAtATime ==
    [][StepInvoked =>
          /\ sequence.pc # "call"
          /\ sequence'.calls = (IF sequence'.run = sequence.run
                                THEN sequence.calls + 1 ELSE 1)
          /\ sequence'.run = sequence.run =>
                /\ sequence.pc \in {"retrySleep", "delay", "errorDelay"}
                /\ sequence'.currentUrl = sequence.currentUrl
                      <=> sequence.pc = "retrySleep"
                /\ sequence'.attempt = (IF sequence.pc = "retrySleep"
                                        THEN sequence.attempt + 1 ELSE 1)]_vars

\* the step for a second identifier is in flight, on its second attempt,
\* after the first identifier's result and the inter-step delay
C22_Witness ==
    /\ sequence.pc = "call"
    /\ Len(sequence.results) = 1
    /\ sequence.currentUrl # sequence.startUrl
    /\ sequence.attempt = 2
    /\ sequence.calls = 3

\* a call of get has just been made
GetCalled == cacheCall'.n = cacheCall.n + 1 /\ cacheCall'.op = "get"

\* what C23 says of a get with the arguments args, made at time clock on the
\* cache as it stands
GetAnswersLastSet(args) ==
    /\ MapHas(cacheCall.lastSet, args) =>
          LET set == MapGet(cacheCall.lastSet, args)
          IN  IF clock - set.at > lruCache.ttlMs
              THEN /\ cacheCall'.result = Null
                   /\ ~MapHas(lruCache'.cache, KeyOf(args))
                   /\ ~MapHas(lruCache'.accessTime, KeyOf(args))
              ELSE cacheCall'.result = set.data
    /\ \A key \in MapKeys(lruCache'.cache) :
          /\ MapHas(lruCache.cache, key)
          /\ MapGet(lruCache'.cache, key) = MapGet(lruCache.cache, key)

\* C23 (as claimed): a get with the provider, operation and params of an
\* earlier set returns the value of the most recent such set while its entry
\* has not expired, been evicted or been cleared; once more than the TTL has
\* passed since that set it returns the miss sentinel and the entry is
\* removed; a get changes no entry's value or timestamp.
C23_GetAnswersLastSet ==
    [][GetCalled => GetAnswersLastSet(cacheCall'.args)]_vars

\* arguments whose key no other arguments yield
KeyIsOwn(args) ==
    \A other \in CacheArguments : KeyOf(other) = KeyOf(args) => other = args

\* What the code keeps of it: the same, for arguments whose key is their own.
GetAnswersLastSetOfKey ==
    [][(GetCalled /\ KeyIsOwn(cacheCall'.args))
          => GetAnswersLastSet(cacheCall'.args)]_vars

\* Two different (provider, operation, params) with one key: a get returns
\* the value that a set with other arguments has stored.
C23_KeyShared ==
    /\ cacheCall.op = "get"
    /\ MapHas(cacheCall.lastSet, cacheCall.args)
    /\ cacheCall.result # Null
    /\ cacheCall.result # MapGet(cacheCall.lastSet, cacheCall.args).data

\* a call of set has just been made
SetCalled == cacheCall'.n = cacheCall.n + 1 /\ cacheCall'.op = "set"

\* C24 (as claimed): a set on a namespace that holds maxSize entries evicts
\* exactly one entry before the insert, the one whose last access (by set or
\* by a get that returned it) lies furthest back; a set on a namespace below
\* maxSize evicts none; the number of entries never exceeds maxSize.
C24_EvictsLeastRecentlyAccessed ==
    [][/\ Len(lruCache'.cache) <= lruCache'.maxSize
       /\ SetCalled =>
             IF Len(lruCache.cache) >= lruCache.maxSize
             THEN \E key \in MapKeys(lruCache.cache) :
                     /\ cacheCall'.removed = {key}
                     /\ \A other \in MapKeys(lruCache.cache) :
                           MapGet(cacheCall.lastAccess, key)
                               <= MapGet(cacheCall.lastAccess, other)
             ELSE cacheCall'.removed = {}]_vars

\* What the code keeps of it, for maxSize >= 1: exactly one entry is evicted
\* from a full namespace, none otherwise, the size stays within maxSize, and
\* the evicted entry is one whose accessTime (the Date.now() of its last
\* access) is not above that of any other entry.
EvictsSmallestAccessTime ==
    [][lruCache.maxSize >= 1 =>
          /\ Len(lruCache'.cache) <= lruCache'.maxSize
          /\ SetCalled =>
                IF Len(lruCache.cache) >= lruCache.maxSize
                THEN \E key \in MapKeys(lruCache.cache) :
                        /\ cacheCall'.removed = {key}
                        /\ \A other \in MapKeys(lruCache.cache) :
                              MapGet(lruCache.accessTime, key)
                                  <= MapGet(lruCache.accessTime, other)
                ELSE cacheCall'.removed = {}]_vars

\* Calls within one tick of Date.now(): the set has evicted the entry that a
\* get had just returned and kept an entry accessed before it.
C24_RecentlyReadEvicted ==
    /\ cacheCall.op = "set"
    /\ lruCache.maxSize = 2
    /\ cacheCall.removedAccess = {cacheCall.n - 1}
    /\ \E e \in 1..Len(cacheCall.lastAccess) :
          /\ cacheCall.lastAccess[e].key # KeyOf(cacheCall.args)
          /\ cacheCall.lastAccess[e].value < cacheCall.n - 1

\* A namespace of maxSize 0 holds an entry.
ZeroSizeCacheHoldsEntry ==
    lruCache.maxSize = 0 /\ Len(lruCache.cache) = 1

\* C25 (as claimed): once a tracked lookup has been made, the reported hit
\* rate is hits / (hits + misses) * 100: 100 for a cache with only hits, 0 for
\* a cache with only misses.
C25_HitRate ==
    LET rate == CalculateHitRate(lruCache)
        lookups == lruCache.hits + lruCache.misses
    IN  lookups > 0 => rate.num * lookups = lruCache.hits * 100 * rate.den

\* What the code keeps of it: the rate is hits / (hits + misses) * 100 once
\* there is a hit and a miss, and 0 with only misses; a tracked lookup counts
\* as a hit exactly when it returned a value, as a miss otherwise.
HitRateWithHitsAndMisses ==
    LET rate == CalculateHitRate(lruCache)
        lookups == lruCache.hits + lruCache.misses
    IN  /\ (lruCache.hits > 0 /\ lruCache.misses > 0)
              => rate.num * lookups = lruCache.hits * 100 * rate.den
        /\ lruCache.hits = 0 => rate.num = 0
HitCountedWhenValueReturned ==
    [][(cacheCall'.n = cacheCall.n + 1 /\ cacheCall'.op = "getWithStats") =>
          /\ lruCache'.hits = lruCache.hits
                 + (IF cacheCall'.result # Null THEN 1 ELSE 0)
          /\ lruCache'.misses = lruCache.misses
                 + (IF cacheCall'.result # Null THEN 0 ELSE 1)]_vars

\* A cache with only hits reports a hit rate of 0.
C25_OnlyHitsReportZero ==
    /\ lruCache.hits >= 1
    /\ lruCache.misses = 0
    /\ CalculateHitRate(lruCache).num = 0

\* the status the counters of m call for, for an error rate in hundredths of
\* a percent
StatusFor(m, errorRate) ==
    IF m.consecutiveFailures >= 10 \/ errorRate >= 5000 THEN "critical"
    ELSE IF m.consecutiveFailures >= 5 \/ errorRate >= 2500 THEN "degraded"
    ELSE IF errorRate >= 1000 THEN "warning"
    ELSE "healthy"

\* failed / total as a percentage is at least percent
ExactRateAtLeast(m, percent) ==
    m.total > 0 /\ m.failed * 100 >= percent * m.total

\* C26 (as claimed): after every recordSuccess and recordFailure the status
\* is the derivation over the counters with error rate = failed / total, and
\* recordSuccess has reset the consecutive failures to 0.
C26_StatusFromExactRate ==
    [][(SuccessRecorded \/ FailureRecorded) =>
          /\ SuccessRecorded => metrics'.consecutiveFailures = 0
          /\ metrics'.status =
                IF metrics'.consecutiveFailures >= 10 \/ ExactRateAtLeast(metrics', 50)
                THEN "critical"
                ELSE IF metrics'.consecutiveFailures >= 5
                        \/ ExactRateAtLeast(metrics', 25)
                THEN "degraded"
                ELSE IF ExactRateAtLeast(metrics', 10) THEN "warning"
                ELSE "healthy"]_vars

\* C26 (amended): the same derivation over the error rate as the provider
\* reports it, failed / total * 100 rounded to two decimals (0 without
\* records); recordSuccess resets the consecutive failures to 0 and
\* recordFailure adds 1 to them before the derivation.
C26_StatusFromReportedRate ==
    [][(SuccessRecorded \/ FailureRecorded) =>
          /\ SuccessRecorded => metrics'.consecutiveFailures = 0
          /\ FailureRecorded =>
                metrics'.consecutiveFailures = metrics.consecutiveFailures + 1
          /\ metrics'.status = StatusFor(metrics', ErrorRate(metrics'))]_vars

\* 5000 failures in 10001 records, the last one a success: the rate of
\* 49.995...% is reported as 50.00 and the status is critical
C26_Witness ==
    /\ metrics.status = "critical"
    /\ metrics.consecutiveFailures = 0
    /\ metrics.total = LongRunTotal + 1
    /\ ~ExactRateAtLeast(metrics, 50)
    /\ ErrorRate(metrics) = 5000

\* toFixed(2) never meets a rate halfway between two hundredths
NoRoundingTie ==
    metrics.total > 0 => (2 * metrics.failed * 10000) % (2 * metrics.total) # metrics.total

\* C27 (as claimed): a growing resize never leaves running above the new
\* capacity, whatever acquire, release and resize calls came before.
C27_GrowWithinNewCapacity ==
    [][semaphore'.capacity > semaphore.capacity
          => semaphore'.running <= semaphore'.capacity]_vars

\* What the code keeps of it: a growing resize that finds running within the
\* old capacity leaves it within the new one, and it wakes
\* min(newCapacity - oldCapacity, queue length) waiters whatever running is.
GrowFromWithinCapacity ==
    [][semaphore'.capacity > semaphore.capacity =>
          /\ semaphore.running <= semaphore.capacity
                => semaphore'.running <= semaphore'.capacity
          /\ semaphore'.running - semaphore.running
                = Min(semaphore'.capacity - semaphore.capacity,
                      Len(semaphore.queue))]_vars

\* the acquire calls granted a permit in this step
Granted == held' \ held

\* C28 (as claimed): a shrinking resize revokes no permit and wakes no
\* waiter, and afterwards a permit is granted, to a new acquirer or to a
\* queued waiter, only while running is below the capacity, so that every
\* grant outside a resize leaves running within the capacity.
C28_ShrinkHoldsForLaterGrants ==
    [][/\ semaphore'.capacity < semaphore.capacity =>
             /\ held' = held
             /\ semaphore'.running = semaphore.running
             /\ semaphore'.queue = semaphore.queue
       /\ (semaphore'.capacity = semaphore.capacity /\ Granted # {})
             => semaphore'.running <= semaphore'.capacity]_vars

\* What the code keeps of it: a shrinking resize revokes no permit and wakes
\* no waiter, and a new acquirer is granted a permit only while running is
\* below the capacity; a release hands its permit to the head of the queue
\* whatever the capacity is, so that running stays where it was.
ShrinkHoldsForNewAcquirers ==
    [][/\ semaphore'.capacity < semaphore.capacity =>
             /\ held' = held
             /\ semaphore'.running = semaphore.running
             /\ semaphore'.queue = semaphore.queue
       /\ (semaphore'.totalAcquisitions # semaphore.totalAcquisitions
              /\ Granted # {})
             => semaphore.running < semaphore.capacity
       /\ (semaphore'.totalReleases # semaphore.totalReleases
              /\ Len(semaphore.queue) > 0)
             => /\ Granted = {Head(semaphore.queue)}
                /\ semaphore'.running = semaphore.running]_vars

\* C29 (as claimed): the array returned by processWithRetry holds one entry
\* for every item of the original input.
C29_OneEntryPerOriginalItem ==
    passes.pc = "returned" =>
        /\ Len(passes.results) = passes.n
        /\ \A i \in 1..passes.n :
              \E k \in 1..Len(passes.results) : passes.results[k].item = i

\* What the code returns: the results of the last pass alone, one entry for
\* each item given to that pass, in the order of its items.
ReturnsLastPassOnly ==
    passes.pc = "returned" =>
        /\ Len(passes.results) = Len(passes.items)
        /\ \A k \in 1..Len(passes.items) : passes.results[k].item = passes.items[k]

\* The call has returned after a retry: the item that succeeded in the first
\* pass has no entry in the array.
C29_SuccessOfEarlierPassLost ==
    /\ passes.pc = "returned"
    /\ passes.runs = 2
    /\ passes.rejections = 0
    /\ \E i \in passes.succeeded :
          \A k \in 1..Len(passes.results) : passes.results[k].item # i

AbortedOnErrorBudget ==
    /\ sequence.pc = "rejected"
    /\ sequence.error = NavigationError("Chapter processing failed",
                                        sequence.currentUrl, "processChapter")

\* C31 (as claimed): every run of processChapterSequence on a navigator has
\* the same error budget: the consecutive-error counter is 0 when the first
\* step of a run is invoked, and a run that aborts for reaching 3 consecutive
\* errors has seen at least 3 failed invocations of the step since it began,
\* whatever earlier runs on the navigator did.
C31_SameErrorBudgetEveryRun ==
    /\ (sequence.pc = "call" /\ sequence.calls = 1)
          => navigator.consecutiveErrors = 0
    /\ AbortedOnErrorBudget => Faults(sequence) >= MaxConsecutiveErrors

\* What the code keeps: the first run on a navigator has the full budget.
FirstRunHasFullBudget ==
    sequence.run = 1 =>
        /\ (sequence.pc = "call" /\ sequence.calls = 1)
              => navigator.consecutiveErrors = 0
        /\ AbortedOnErrorBudget => Faults(sequence) >= MaxConsecutiveErrors

\* A second run has aborted on the error budget after two failed invocations
\* of the step.
C31_AbortAfterTwoFailures ==
    /\ sequence.run = 2
    /\ AbortedOnErrorBudget
    /\ Faults(sequence) = 2

\* C32: a success or failure recorded while the breaker is open never changes
\* the breaker failure count (nor its two timestamps); before the next-retry
\* time the state stays open, at or after it the state becomes half-open
\* whatever the outcome recorded, so that record neither closes nor reopens
\* the breaker; the record after it, made while half-open, is the probe.
C32_RecordWhileOpen ==
    [][/\ (metrics.circuitBreaker.state = "open"
              /\ (SuccessRecorded \/ FailureRecorded)) =>
            /\ metrics'.circuitBreaker.failures = metrics.circuitBreaker.failures
            /\ metrics'.circuitBreaker.openedAt = metrics.circuitBreaker.openedAt
            /\ metrics'.circuitBreaker.nextRetryAt =
                   metrics.circuitBreaker.nextRetryAt
            /\ metrics'.circuitBreaker.state =
                   IF now < metrics.circuitBreaker.nextRetryAt
                   THEN "open" ELSE "half-open"
       /\ (metrics.circuitBreaker.state = "half-open"
              /\ (SuccessRecorded \/ FailureRecorded)) =>
            metrics'.circuitBreaker.state =
                IF SuccessRecorded THEN "closed" ELSE "open"]_vars

\* C32 witness: a failure recorded on the open breaker after its cooldown has
\* made it half-open: 6 failures in a row, the breaker still counts 5.
C32_Witness ==
    /\ metrics.circuitBreaker.state = "half-open"
    /\ metrics.circuitBreaker.failures = 5
    /\ metrics.consecutiveFailures = 6
    /\ now >= metrics.circuitBreaker.nextRetryAt

\* a run of processChapterSequence is under way / has ended
RunUnderWay == sequence.pc \in {"call", "retrySleep", "delay", "errorDelay"}
RunEnded == sequence.pc \in {"returned", "rejected"}

\* the iteration of the loop that a settled withRetry call belongs to adds a
\* result, within the maximum, or increments the consecutive-error counter
IterationProgresses ==
    [][(sequence.pc = "call" /\ sequence'.pc \notin {"call", "retrySleep"}) =>
          \/ /\ sequence'.results # sequence.results
             /\ Len(sequence'.results) = Len(sequence.results) + 1
             /\ Len(sequence'.results) <= navigator.maxChapters
             /\ navigator'.consecutiveErrors = navigator.consecutiveErrors
          \/ /\ sequence'.results = sequence.results
             /\ navigator'.consecutiveErrors = navigator.consecutiveErrors + 1]_vars

\* the counter is reset only after a result was added, and a run whose
\* counter has reached 3 aborts after the error delay
CounterBoundsFailures ==
    [][/\ navigator'.consecutiveErrors < navigator.consecutiveErrors =>
            /\ sequence.pc = "delay"
            /\ Len(sequence.results) >= 1
            /\ navigator'.consecutiveErrors = 0
       /\ (sequence.pc = "errorDelay" /\ sequence' # sequence
              /\ navigator.consecutiveErrors >= MaxConsecutiveErrors) =>
            sequence'.pc = "rejected"
       /\ (sequence.pc = "retrySleep" /\ sequence' # sequence) =>
            /\ sequence'.attempt = sequence.attempt + 1
            /\ sequence'.attempt <= StepMaxRetries]_vars

\* C33: every run of processChapterSequence ends, by returning a report or by
\* raising an error, provided every invocation of the step function settles
\* and every delay elapses: each iteration adds a result (at most maxChapters
\* of them) or increments the consecutive-error counter, which aborts the run
\* at 3 and is reset only after a result was added.
C33_EveryRunTerminates ==
    /\ RunUnderWay ~> RunEnded
    /\ IterationProgresses
    /\ CounterBoundsFailures

\* C33 witness: a run has ended after more failed invocations than results,
\* with failures before and after a result.
C33_Witness ==
    /\ RunEnded
    /\ Len(sequence.results) >= 2
    /\ Faults(sequence) >= 5

\* the acquire call `id` waits in the queue
Queued(id) == \E k \in 1..Len(semaphore.queue) : semaphore.queue[k] = id

\* C34: no waiter starves: if every granted permit is eventually released,
\* every queued acquire call is eventually granted, under any interleaving of
\* acquire, release and resize; and whenever the queue is non-empty, running
\* is at least the capacity (no slot stays free while a waiter is queued).
C34_NoWaiterStarves ==
    /\ \A id \in 1..MaxAcquisitions : Queued(id) ~> (id \in held)
    /\ [](Len(semaphore.queue) > 0 => semaphore.running >= semaphore.capacity)

\* C34 witness: a waiter that queued behind another has been granted its
\* permit while a later one still waits, after a resize has shrunk the
\* capacity below the number running.
C34_Witness ==
    /\ 3 \in held
    /\ Queued(4)
    /\ semaphore.totalReleases >= 1
    /\ semaphore.running > semaphore.capacity

\* the step in which processBatch has joined a batch and reached its
\* adaptive-concurrency check
BatchJoined == batchProcessor'.batchCount = batchProcessor.batchCount + 1

\* C35: whenever a processBatch run reaches its adaptive-concurrency check
\* the semaphore is idle (running = 0, empty queue), because the batch has
\* fully settled; so neither the long-queue scale-up nor the high-utilization
\* scale-down fires, and a check changes the concurrency by the
\* average-wait-time rule alone.
C35_CheckFindsSemaphoreIdle ==
    [][/\ BatchJoined =>
            /\ semaphore.running = 0
            /\ semaphore.queue = <<>>
            /\ semaphore'.running = 0
            /\ semaphore'.queue = <<>>
       /\ batchProcessor'.maxConcurrency # batchProcessor.maxConcurrency =>
            /\ BatchJoined
            /\ batchProcessor.adaptiveConcurrency
            /\ semaphore.hasWaitTime
            /\ batchProcessor.maxConcurrency < WaitTimeCap
            /\ batchProcessor'.maxConcurrency =
                   Min(batchProcessor.maxConcurrency + 2, WaitTimeCap)
            /\ batchProcessor'.concurrencyChanges =
                   Append(batchProcessor.concurrencyChanges,
                          [old |-> batchProcessor.maxConcurrency,
                           new |-> batchProcessor'.maxConcurrency,
                           reason |-> "High wait times"])]_vars

\* C35 witness: two checks of one run have raised the concurrency, each by the
\* average-wait-time rule, and the run goes on.
C35_Witness ==
    /\ run.pc = "delay"
    /\ Len(batchProcessor.concurrencyChanges) = 2
    /\ batchProcessor.maxConcurrency > 4
    /\ semaphore.running = 0

\* what each rule of the check makes of the concurrency `old`
RuleResult(old, reason) ==
    CASE reason = "High queue, low utilization" -> Min(old * 2, 20)
      [] reason = "Low queue, high utilization" -> Max(2, (old * 8) \div 10)
      [] reason = "High wait times"             -> Min(old + 2, 10)
      [] OTHER                                  -> old

\* the record of the concurrency changes is a chain that ends in the current
\* concurrency, and each entry is what its rule makes of the old value
ChangesRecorded(changes, current) ==
    /\ \A k \in 1..Len(changes) :
          /\ changes[k].new # changes[k].old
          /\ changes[k].new = RuleResult(changes[k].old, changes[k].reason)
          /\ changes[k].new > changes[k].old => changes[k].new <= 20
          /\ changes[k].new < changes[k].old => changes[k].new >= 2
    /\ \A k \in 1..(Len(changes) - 1) : changes[k + 1].old = changes[k].new
    /\ Len(changes) > 0 => changes[Len(changes)].new = current

\* C36: after any sequence of adaptive-concurrency checks every adjustment
\* scales the concurrency up to at most 20 and down to at least 2, the
\* capacity of the semaphore equals the processor's maxConcurrency, and each
\* resize of the semaphore is recorded exactly once, with its old value, its
\* new value and its reason.
C36_AdjustmentsBoundedAndRecorded ==
    /\ [](semaphore.capacity = batchProcessor.maxConcurrency)
    /\ [](ChangesRecorded(batchProcessor.concurrencyChanges,
                          batchProcessor.maxConcurrency))
    /\ [][LET before == batchProcessor.concurrencyChanges
              after == batchProcessor'.concurrencyChanges
          IN  /\ Len(after) >= Len(before)
              /\ SubSeq(after, 1, Len(before)) = before
              /\ semaphore'.capacity # semaphore.capacity =>
                    /\ Len(after) > Len(before)
                    /\ after[Len(before) + 1].old = semaphore.capacity
                    /\ after[Len(after)].new = semaphore'.capacity
              /\ Len(after) > Len(before) =>
                    after[Len(before) + 1].old = semaphore.capacity]_vars

\* C36 witness: the concurrency was scaled up by the wait-time rule and then
\* down by the utilization rule, to the floor, while permits were held.
C36_Witness ==
    /\ Len(batchProcessor.concurrencyChanges) >= 2
    /\ \E k \in 1..Len(batchProcessor.concurrencyChanges) :
          /\ batchProcessor.concurrencyChanges[k].reason =
                 "Low queue, high utilization"
          /\ batchProcessor.concurrencyChanges[k].new = 2
    /\ semaphore.running > 0

\* C37: in every reachable state of a provider's circuit breaker: closed means
\* a failure count below 5 and no next-retry time; open or half-open means a
\* failure count of at least 5 and a next-retry time that lies at least 60 s
\* and at most 5 minutes after the open timestamp.
C37_BreakerStateInvariant ==
    LET cb == metrics.circuitBreaker
    IN  /\ cb.state \in {"closed", "open", "half-open"}
        /\ cb.state = "closed" =>
              /\ cb.failures >= 0
              /\ cb.failures < 5
              /\ cb.nextRetryAt = Null
        /\ cb.state \in {"open", "half-open"} =>
              /\ cb.failures >= 5
              /\ cb.openedAt # Null
              /\ cb.nextRetryAt # Null
              /\ cb.nextRetryAt - cb.openedAt >= 60000
              /\ cb.nextRetryAt - cb.openedAt <= 300000

\* C37 witness: the breaker is half-open for the second time: it reopened on a
\* failed probe and its longer cooldown is over.
C37_Witness ==
    /\ metrics.circuitBreaker.state = "half-open"
    /\ metrics.circuitBreaker.failures = 6
    /\ metrics.circuitBreaker.openedAt > 0
    /\ now >= metrics.circuitBreaker.nextRetryAt

\* C38: in every state reachable through acquire, release by a permit holder
\* and resize, totalAcquisitions = totalReleases + running + queue length,
\* and running is never negative.
C38_CountersBalance ==
    /\ semaphore.totalAcquisitions =
           semaphore.totalReleases + semaphore.running + Len(semaphore.queue)
    /\ semaphore.running >= 0
    /\ semaphore.running = Cardinality(held)

\* C38 witness: acquire calls have been granted at once, by a release and by
\* a resize, permits were released, a shrink has left more running than the
\* capacity, and a call still waits.
C38_Witness ==
    /\ semaphore.totalAcquisitions >= 5
    /\ semaphore.totalReleases >= 2
    /\ Len(semaphore.queue) >= 1
    /\ semaphore.running >= 2
    /\ semaphore.running > semaphore.capacity

\* a step that is a call of recordRetry
RetryRecorded == metrics'.retried = metrics.retried + 1

\* C39: after any sequence of recordSuccess, recordFailure, recordRetry and
\* reset the counters are consistent: total = successful + failed,
\* consecutive failures <= historical maximum of consecutive failures <=
\* failed, timeout and rate-limit counts <= failed; and recordRetry changes
\* neither total, successful, failed, the status nor the circuit breaker.
C39_CountersConsistent ==
    /\ [](/\ metrics.total = metrics.successful + metrics.failed
          /\ metrics.successful >= 0
          /\ metrics.consecutiveFailures >= 0
          /\ metrics.consecutiveFailures <= metrics.maxConsecutiveFailures
          /\ metrics.maxConsecutiveFailures <= metrics.failed
          /\ metrics.timeout >= 0
          /\ metrics.timeout <= metrics.failed
          /\ metrics.rateLimited >= 0
          /\ metrics.rateLimited <= metrics.failed)
    /\ [][RetryRecorded =>
             /\ metrics'.total = metrics.total
             /\ metrics'.successful = metrics.successful
             /\ metrics'.failed = metrics.failed
             /\ metrics'.status = metrics.status
             /\ metrics'.circuitBreaker = metrics.circuitBreaker]_vars

\* C39 witness: failures with both flags, a success and retries have been
\* recorded: every failure was a timeout and rate-limited, and the run of
\* failures is over.
C39_Witness ==
    /\ now > 0
    /\ metrics.failed = 2
    /\ metrics.timeout = 2
    /\ metrics.rateLimited = 2
    /\ metrics.successful = 1
    /\ metrics.consecutiveFailures = 0
    /\ metrics.maxConsecutiveFailures = 2
    /\ metrics.retried = 2

\* a step that is a call of the sweep
SweepCalled ==
    /\ cacheCall'.n = cacheCall.n + 1
    /\ cacheCall'.op = "cleanupExpired"

\* the keys of a map are distinct
DistinctKeys(m) == \A i, j \in 1..Len(m) : m[i].key = m[j].key => i = j

\* C40: after any sequence of set, get, eviction, clearProvider, clear and
\* sweep on a cache namespace the value map and the last-access map hold
\* exactly the same keys, and a sweep removes exactly the entries whose age
\* exceeds the TTL and leaves every other entry and its last-access time as
\* they were.
C40_MapsInStepAndSweepExact ==
    /\ [](/\ MapKeys(lruCache.cache) = MapKeys(lruCache.accessTime)
          /\ Len(lruCache.cache) = Len(lruCache.accessTime)
          /\ DistinctKeys(lruCache.cache)
          /\ DistinctKeys(lruCache.accessTime))
    /\ [][SweepCalled =>
            LET fresh == {lruCache.cache[i].key : i \in
                            {j \in 1..Len(lruCache.cache) :
                                clock - lruCache.cache[j].value.timestamp
                                    <= lruCache.ttlMs}}
            IN  /\ lruCache'.cache =
                       SelectSeq(lruCache.cache, LAMBDA e : e.key \in fresh)
                /\ lruCache'.accessTime =
                       SelectSeq(lruCache.accessTime, LAMBDA e : e.key \in fresh)
                /\ MapKeys(lruCache'.cache) = fresh]_vars

\* C40 witness: a sweep has removed an expired entry and kept a fresh one.
C40_Witness ==
    /\ cacheCall.op = "cleanupExpired"
    /\ cacheCall.removed # {}
    /\ Len(lruCache.cache) >= 1
    /\ Len(lruCache.accessTime) >= 1

====
